---- MODULE Spec2Model ----
(***************************************************************************)
(* State-machine model of the https-proxy statistics pipeline and front    *)
(* end: the proxy front end (Proxy.ServeHTTP), the admin enable/disable    *)
(* handlers, the legacy StatsManager, the asynchronous StatsCollector and  *)
(* the StatsDB store (user_stats, domain_stats, minute_stats,              *)
(* hourly_stats, country_stats) with its periodic retention cleanup.       *)
(*                                                                         *)
(* Go strings that can be empty and are only compared are modelled as TLA+ *)
(* strings; formatted time strings are modelled as tuples: <<>> is the     *)
(* empty string (or SQL NULL), <<layout, n>> a formatted instant.          *)
(***************************************************************************)
EXTENDS Integers, Sequences, FiniteSets, TLC

VARIABLES
    statsEnabled,   \* cfg.Stats.Enabled: StatsDB and StatsCollector exist iff TRUE
    geoIP,          \* sc.geoIP: "nil", or a service "noReader" / "ready"
    now,            \* wall clock, seconds
    UserStats,      \* StatsManager.UserStats: username -> UserStats
    db,             \* StatsDB: the five statistics tables
    eventCh,        \* StatsCollector.eventCh: buffered channel of TrafficEvent
    buffer,         \* StatsCollector.buffer: bufferKey -> aggregatedEvent
    buf,            \* flush(): the swapped-out batch while BatchUpsert runs
    pc,             \* position of the collector task (loop)
    done,           \* StatsCollector.done is closed
    stopPc,         \* position of the caller of Stop
    failsLeft,      \* how many more store writes may fail (environment)
    tunnels,        \* open CONNECT tunnels (handleConnectWithStats in progress)
    resp,           \* what the last Proxy.ServeHTTP call did
    adminResp,      \* what the last admin enable/disable call answered
    cleanupPc,      \* position of the periodic cleanup task of main
    statsFile,      \* the legacy JSON statistics file (cfg.Stats.FilePath)
    reader,         \* a task running a query method of StatsDB: position, locals
    hist            \* history: what was recorded, accepted, written

vars == <<statsEnabled, geoIP, now, UserStats, db, eventCh, buffer, buf, pc,
          done, stopPc, failsLeft, tunnels, resp, adminResp, cleanupPc,
          statsFile, reader, hist>>

----------------------------------------------------------------------------
(* Bounds of the model and sample inputs.                                  *)

\* channel capacity used by the model (the program's is 10000)
QueueCap == 1
\* buffer size that forces a flush in the model (the program's is 5000)
MaxBuffer == 2
\* how many TrafficEvents are passed to Record in one behaviour
MaxEvents == 3
\* how many store writes the environment lets fail in one behaviour
MaxFails == 1
\* how many records one direct BatchUpsert call carries at most
MaxBatch == 2
\* how many direct store calls one behaviour makes
MaxCalls == 2
\* how many requests the front end serves in one behaviour
MaxRequests == 1
\* how many admin calls one behaviour makes
MaxAdminCalls == 1

Users == {"alice", "bob"}
Domains == {"a.com", "b.org"}

\* time.Minute and time.Hour in seconds
SecondsPerMinute == 60
SecondsPerHour == 3600
\* the zero time.Time (t.IsZero())
ZeroTime == 0

\* The sum of f[x] over the finite set S.
RECURSIVE SumOver(_, _)
SumOver(S, f) ==
    IF S = {} THEN 0
    ELSE LET x == CHOOSE y \in S : TRUE IN f[x] + SumOver(S \ {x}, f)

\* All sequences without repetition that enumerate the finite set S.
RECURSIVE Orderings(_)
Orderings(S) ==
    IF S = {} THEN {<<>>}
    ELSE UNION {{<<x>> \o o : o \in Orderings(S \ {x})} : x \in S}

\* Sequences over S of length at most n.
SeqsUpTo(S, n) == UNION {[1..k -> S] : k \in 0..n}

----------------------------------------------------------------------------
(* Time formatting.                                                        *)

\* t.Truncate(time.Minute).Format("2006-01-02T15:04:00")
FormatMinute(t) == <<"minute", (t \div SecondsPerMinute) * SecondsPerMinute>>
\* t.Truncate(time.Hour).Format("2006-01-02T15:00:00")
FormatHour(t) == <<"hour", (t \div SecondsPerHour) * SecondsPerHour>>
\* t.Format(time.RFC3339)
FormatRFC3339(t) == <<"rfc3339", t>>
\* SQLite datetime('now')
SqliteNow(t) == <<"sqlite", t>>
\* the empty string of a formatted time / NULL of a column
Empty == <<>>
\* a Go string bound to a nullable TEXT column: never NULL, also when ""
Text(s) == <<s>>

----------------------------------------------------------------------------
(* StatsDB: the store.  A table is a function from the keys of its rows to *)
(* the rows.                                                               *)

\* initTables on a new database file: all tables exist and are empty
EmptyDB ==
    [user_stats |-> <<>>, domain_stats |-> <<>>, minute_stats |-> <<>>,
     hourly_stats |-> <<>>, country_stats |-> <<>>]

\* TrafficRecord
TrafficRecord(u, d, up, down, cc, c, cn, ct, m, h, t) ==
    [Username |-> u, Domain |-> d, Upload |-> up, Download |-> down,
     ConnCount |-> cc, Country |-> c, CountryName |-> cn, Continent |-> ct,
     Minute |-> m, Hour |-> h, Timestamp |-> t]

\* SQL COALESCE(a, b): the first argument that is not NULL
Coalesce(a, b) == IF a # Empty THEN a ELSE b

\* "col = col + excluded.col" of every ON CONFLICT ... DO UPDATE clause
MutAccumulateOverwrites(stored, incoming) == incoming
Accumulate(stored, incoming) == stored + incoming

\* stmtUser: INSERT INTO user_stats ... ON CONFLICT(username) DO UPDATE
MutUpsertUserKeepsTotals(t, r, ts) ==
    LET u == r.Username IN
    IF u \in DOMAIN t
      THEN [t EXCEPT ![u].conn_count = Accumulate(@, r.ConnCount),
                     ![u].last_access = ts]
      ELSE t @@ (u :> [total_upload |-> r.Upload, total_download |-> r.Download,
                       conn_count |-> r.ConnCount, request_count |-> 0,
                       first_seen |-> ts, last_access |-> ts, disabled |-> 0])
MutUpsertUserResetsDisabled(t, r, ts) ==
    LET u == r.Username IN
    IF u \in DOMAIN t
      THEN [t EXCEPT ![u].total_upload = Accumulate(@, r.Upload),
                     ![u].total_download = Accumulate(@, r.Download),
                     ![u].conn_count = Accumulate(@, r.ConnCount),
                     ![u].last_access = ts,
                     ![u].disabled = 0]
      ELSE t @@ (u :> [total_upload |-> r.Upload, total_download |-> r.Download,
                       conn_count |-> r.ConnCount, request_count |-> 0,
                       first_seen |-> ts, last_access |-> ts, disabled |-> 0])
UpsertUser(t, r, ts) ==
    LET u == r.Username IN
    IF u \in DOMAIN t
      THEN [t EXCEPT ![u].total_upload = Accumulate(@, r.Upload),
                     ![u].total_download = Accumulate(@, r.Download),
                     ![u].conn_count = Accumulate(@, r.ConnCount),
                     ![u].last_access = ts]
      ELSE t @@ (u :> [total_upload |-> r.Upload, total_download |-> r.Download,
                       conn_count |-> r.ConnCount, request_count |-> 0,
                       first_seen |-> ts, last_access |-> ts, disabled |-> 0])

\* stmtDomain: INSERT INTO domain_stats ... ON CONFLICT(user, domain) DO UPDATE
UpsertDomain(t, r, ts) ==
    LET k == <<r.Username, r.Domain>> IN
    IF k \in DOMAIN t
      THEN [t EXCEPT ![k].upload = Accumulate(@, r.Upload),
                     ![k].download = Accumulate(@, r.Download),
                     ![k].conn_count = Accumulate(@, r.ConnCount),
                     ![k].last_seen = ts]
      ELSE t @@ (k :> [upload |-> r.Upload, download |-> r.Download,
                       conn_count |-> r.ConnCount, last_seen |-> ts])

\* stmtMinute / stmtHour: INSERT ... ON CONFLICT(user, minute|hour) DO UPDATE
UpsertBucket(t, user, bucket, r) ==
    LET k == <<user, bucket>> IN
    IF k \in DOMAIN t
      THEN [t EXCEPT ![k].upload = Accumulate(@, r.Upload),
                     ![k].download = Accumulate(@, r.Download),
                     ![k].conn_count = Accumulate(@, r.ConnCount)]
      ELSE t @@ (k :> [upload |-> r.Upload, download |-> r.Download,
                       conn_count |-> r.ConnCount])

\* stmtCountry: INSERT INTO country_stats ... ON CONFLICT(user, country) DO UPDATE
UpsertCountry(t, r, ts) ==
    LET k == <<r.Username, r.Country>> IN
    IF k \in DOMAIN t
      THEN [t EXCEPT ![k].country_name = Coalesce(Text(r.CountryName), @),
                     ![k].continent = Coalesce(Text(r.Continent), @),
                     ![k].upload = Accumulate(@, r.Upload),
                     ![k].download = Accumulate(@, r.Download),
                     ![k].conn_count = Accumulate(@, r.ConnCount),
                     ![k].last_seen = ts]
      ELSE t @@ (k :> [country_name |-> Text(r.CountryName),
                       continent |-> Text(r.Continent),
                       upload |-> r.Upload, download |-> r.Download,
                       conn_count |-> r.ConnCount, last_seen |-> ts])

\* The statements BatchUpsert executes for one record, in order.
MutRecordStmtsAlwaysDomain(r) ==
    <<[table |-> "user_stats", r |-> r], [table |-> "domain_stats", r |-> r]>>
    \o (IF r.Minute # Empty THEN <<[table |-> "minute_stats", r |-> r]>> ELSE <<>>)
    \o (IF r.Hour # Empty THEN <<[table |-> "hourly_stats", r |-> r]>> ELSE <<>>)
    \o (IF r.Country # "" THEN <<[table |-> "country_stats", r |-> r]>> ELSE <<>>)
RecordStmts(r) ==
    <<[table |-> "user_stats", r |-> r]>>
    \o (IF r.Domain # "" THEN <<[table |-> "domain_stats", r |-> r]>> ELSE <<>>)
    \o (IF r.Minute # Empty THEN <<[table |-> "minute_stats", r |-> r]>> ELSE <<>>)
    \o (IF r.Hour # Empty THEN <<[table |-> "hourly_stats", r |-> r]>> ELSE <<>>)
    \o (IF r.Country # "" THEN <<[table |-> "country_stats", r |-> r]>> ELSE <<>>)

\* The statements of a whole batch: the loop over the records.
RECURSIVE BatchStmts(_)
BatchStmts(records) ==
    IF records = <<>> THEN <<>>
    ELSE RecordStmts(Head(records)) \o BatchStmts(Tail(records))

\* One statement executed inside the transaction.
ExecStmt(d, s) ==
    LET r == s.r
        ts == FormatRFC3339(r.Timestamp)
    IN CASE s.table = "user_stats" ->
              [d EXCEPT !.user_stats = UpsertUser(@, r, ts)]
         [] s.table = "domain_stats" ->
              [d EXCEPT !.domain_stats = UpsertDomain(@, r, ts)]
         [] s.table = "minute_stats" ->
              [d EXCEPT !.minute_stats = UpsertBucket(@, r.Username, r.Minute, r)]
         [] s.table = "hourly_stats" ->
              [d EXCEPT !.hourly_stats = UpsertBucket(@, r.Username, r.Hour, r)]
         [] s.table = "country_stats" ->
              [d EXCEPT !.country_stats = UpsertCountry(@, r, ts)]

\* The transaction's view after the first k statements.
RECURSIVE ExecStmts(_, _, _)
ExecStmts(d, stmts, k) ==
    IF k = 0 THEN d ELSE ExecStmt(ExecStmts(d, stmts, k - 1), stmts[k])

\* Where a batch write can fail: <<>> is no failure; <<k>> is a failure after
\* k statements were executed (k = 0: Begin, a Prepare or the first Exec
\* fails; k = number of statements: Commit fails).
FailPoints(records) == {<<>>} \cup {<<k>> : k \in 0..Len(BatchStmts(records))}

\* defer tx.Rollback(): what the database holds after a failed transaction
\* that started from orig and had reached tx.
MutRollbackKeeps(orig, tx) == tx
Rollback(orig, tx) == orig

\* StatsDB.BatchUpsert: the error it returns and the database afterwards.
BatchUpsert(d, records, fail) ==
    LET stmts == BatchStmts(records) IN
    IF fail = <<>>
      THEN [err |-> FALSE, db |-> ExecStmts(d, stmts, Len(stmts))]
      ELSE [err |-> TRUE, db |-> Rollback(d, ExecStmts(d, stmts, fail[1]))]

\* StatsDB.SetUserDisabled
MutSetUserDisabledReplaces(d, u, disabled, t) ==
    LET val == IF disabled THEN 1 ELSE 0 IN
    [d EXCEPT !.user_stats =
        [x \in DOMAIN @ \cup {u} |->
           IF x # u THEN @[x]
           ELSE [total_upload |-> 0, total_download |-> 0, conn_count |-> 0,
                 request_count |-> 0, first_seen |-> SqliteNow(t),
                 last_access |-> SqliteNow(t), disabled |-> val]]]
SetUserDisabled(d, u, disabled, t) ==
    LET val == IF disabled THEN 1 ELSE 0 IN
    IF u \in DOMAIN d.user_stats
      THEN [d EXCEPT !.user_stats[u].disabled = val]
      ELSE [d EXCEPT !.user_stats = @ @@
              (u :> [total_upload |-> 0, total_download |-> 0, conn_count |-> 0,
                     request_count |-> 0, first_seen |-> SqliteNow(t),
                     last_access |-> SqliteNow(t), disabled |-> val])]

\* StatsDB.IsUserDisabled; readErr: the query fails
MutIsUserDisabledFailsClosed(d, u, readErr) ==
    IF readErr \/ u \notin DOMAIN d.user_stats THEN TRUE
    ELSE d.user_stats[u].disabled # 0
IsUserDisabled(d, u, readErr) ==
    IF readErr \/ u \notin DOMAIN d.user_stats THEN FALSE
    ELSE d.user_stats[u].disabled # 0

\* StatsDB.IncrementRequestCount; execErr: the statement fails (ignored)
IncrementRequestCount(d, u, t, execErr) ==
    IF execErr THEN d
    ELSE IF u \in DOMAIN d.user_stats
      THEN [d EXCEPT !.user_stats[u].request_count = @ + 1,
                     !.user_stats[u].last_access = SqliteNow(t)]
      ELSE [d EXCEPT !.user_stats = @ @@
              (u :> [total_upload |-> 0, total_download |-> 0, conn_count |-> 0,
                     request_count |-> 1, first_seen |-> SqliteNow(t),
                     last_access |-> SqliteNow(t), disabled |-> 0])]

----------------------------------------------------------------------------
(* GeoIPService and StatsCollector.                                        *)

\* The GeoLite2 database: the addresses it knows.
GeoDB ==
    "1.1.1.1" :> [Country |-> "US", CountryName |-> "United States",
                  Continent |-> "NA"]

\* GeoIPService.Lookup: <<>> is nil (no reader, unparsable or unknown address)
Lookup(g, ip) ==
    IF g = "ready" /\ ip \in DOMAIN GeoDB THEN <<GeoDB[ip]>> ELSE <<>>

\* TrafficEvent
TrafficEvent(u, d, ip, up, down, t, c, cn, ct) ==
    [Username |-> u, Domain |-> d, TargetIP |-> ip, Upload |-> up,
     Download |-> down, Timestamp |-> t, Country |-> c, CountryName |-> cn,
     Continent |-> ct]

\* Record, first part: enrich with GeoIP if not already set
Enrich(ev, g) ==
    IF ev.Country = "" /\ ev.TargetIP # "" /\ g # "nil"
         /\ Lookup(g, ev.TargetIP) # <<>>
      THEN LET geo == Lookup(g, ev.TargetIP)[1] IN
           [ev EXCEPT !.Country = geo.Country,
                      !.CountryName = geo.CountryName,
                      !.Continent = geo.Continent]
      ELSE ev

\* Record, second part: select { case sc.eventCh <- ev: default: log }
MutSendDropsOldest(ch, ev) ==
    IF Len(ch) < QueueCap THEN [sent |-> TRUE, ch |-> Append(ch, ev)]
    ELSE [sent |-> TRUE, ch |-> Append(Tail(ch), ev)]
TrySend(ch, ev) ==
    IF Len(ch) < QueueCap THEN [sent |-> TRUE, ch |-> Append(ch, ev)]
    ELSE [sent |-> FALSE, ch |-> ch]

\* bufferKey of an event whose effective time is t
BufferKey(ev, t) ==
    [Username |-> ev.Username, Domain |-> ev.Domain, Country |-> ev.Country,
     Minute |-> FormatMinute(t), Hour |-> FormatHour(t)]

\* aggregate: the time the event is filed under
EventTime(ev, clock) == IF ev.Timestamp = ZeroTime THEN clock ELSE ev.Timestamp

\* StatsCollector.aggregate
MutAggregateFirstNotCounted(b, ev, clock) ==
    LET t == EventTime(ev, clock)
        key == BufferKey(ev, t)
    IN IF key \in DOMAIN b
         THEN [b EXCEPT ![key].Upload = @ + ev.Upload,
                        ![key].Download = @ + ev.Download,
                        ![key].ConnCount = @ + 1,
                        ![key].LastSeen = IF t > @ THEN t ELSE @]
         ELSE b @@ (key :> [Upload |-> 0, Download |-> 0, ConnCount |-> 1,
                            CountryName |-> ev.CountryName,
                            Continent |-> ev.Continent, LastSeen |-> t])
MutAggregateLastSeenOverwrites(b, ev, clock) ==
    LET t == EventTime(ev, clock)
        key == BufferKey(ev, t)
        agg == IF key \in DOMAIN b THEN b[key]
               ELSE [Upload |-> 0, Download |-> 0, ConnCount |-> 0,
                     CountryName |-> ev.CountryName,
                     Continent |-> ev.Continent, LastSeen |-> ZeroTime]
        upd == [agg EXCEPT !.Upload = @ + ev.Upload,
                           !.Download = @ + ev.Download,
                           !.ConnCount = @ + 1,
                           !.LastSeen = t]
    IN IF key \in DOMAIN b THEN [b EXCEPT ![key] = upd] ELSE b @@ (key :> upd)
Aggregate(b, ev, clock) ==
    LET t == EventTime(ev, clock)
        key == BufferKey(ev, t)
        agg == IF key \in DOMAIN b THEN b[key]
               ELSE [Upload |-> 0, Download |-> 0, ConnCount |-> 0,
                     CountryName |-> ev.CountryName,
                     Continent |-> ev.Continent, LastSeen |-> ZeroTime]
        upd == [agg EXCEPT !.Upload = @ + ev.Upload,
                           !.Download = @ + ev.Download,
                           !.ConnCount = @ + 1,
                           !.LastSeen = IF t > @ THEN t ELSE @]
    IN IF key \in DOMAIN b THEN [b EXCEPT ![key] = upd] ELSE b @@ (key :> upd)

\* StatsCollector.bufferLen
MutBufferLenOneLess(b) == Cardinality(DOMAIN b) - 1
BufferLen(b) == Cardinality(DOMAIN b)

\* flush: the TrafficRecord built from one bucket of the swapped-out batch
FlushRecord(key, agg) ==
    TrafficRecord(key.Username, key.Domain, agg.Upload, agg.Download,
                  agg.ConnCount, key.Country, agg.CountryName, agg.Continent,
                  key.Minute, key.Hour, agg.LastSeen)

\* flush: the records of a batch; "for key, agg := range buf" visits the keys
\* in an order the Go runtime chooses, here the order given.
FlushRecords(batch, order) ==
    [i \in 1..Len(order) |-> FlushRecord(order[i], batch[order[i]])]

\* flush, on a failed write: re-add the batch to the current buffer
MutMergeBackDiscards(b, batch) == b
MergeBack(b, batch) ==
    [key \in DOMAIN b \cup DOMAIN batch |->
        IF key \in DOMAIN batch
          THEN IF key \in DOMAIN b
                 THEN [b[key] EXCEPT !.Upload = @ + batch[key].Upload,
                                     !.Download = @ + batch[key].Download,
                                     !.ConnCount = @ + batch[key].ConnCount]
                 ELSE batch[key]
          ELSE b[key]]

----------------------------------------------------------------------------
(* StatsManager (the legacy in-memory statistics) and MigrateFromJSON.     *)

\* seconds per day: the date part of a formatted time
SecondsPerDay == 86400

\* Comparison of two TEXT values holding formatted times, as SQLite's
\* MIN/MAX compare them (byte-wise): first by the date, then the separator
\* (' ' of datetime('now') sorts before 'T' of RFC 3339), then the time.
TextLess(a, b) ==
    LET da == a[2] \div SecondsPerDay
        db_ == b[2] \div SecondsPerDay
    IN IF da # db_ THEN da < db_
       ELSE IF a[1] # b[1] THEN a[1] = "sqlite"
       ELSE a[2] < b[2]
TextMin(a, b) == IF TextLess(b, a) THEN b ELSE a
TextMax(a, b) == IF TextLess(a, b) THEN b ELSE a

\* &UserStats{Username: username, ConnectedSince: time.Now()}
NewUserStats(t) ==
    [TotalBytes |-> 0, LastAccess |-> ZeroTime, RequestsCount |-> 0,
     ConnectedSince |-> t, ConnectionCount |-> 0, Disabled |-> FALSE]

\* "Get or create user statistics"
GetOrCreate(us, u, t) == IF u \in DOMAIN us THEN us ELSE us @@ (u :> NewUserStats(t))

\* StatsManager.RecordTraffic
RecordTraffic(us, enabled, u, bytesCount, t) ==
    IF ~enabled THEN us
    ELSE [GetOrCreate(us, u, t) EXCEPT ![u].TotalBytes = @ + bytesCount,
                                       ![u].LastAccess = t]

\* StatsManager.RecordRequest
RecordRequest(us, enabled, u, t) ==
    IF ~enabled THEN us
    ELSE [GetOrCreate(us, u, t) EXCEPT ![u].RequestsCount = @ + 1,
                                       ![u].LastAccess = t]

\* StatsManager.RecordConnection
RecordConnection(us, enabled, u, t) ==
    IF ~enabled THEN us
    ELSE [GetOrCreate(us, u, t) EXCEPT ![u].ConnectionCount = @ + 1,
                                       ![u].LastAccess = t]

\* StatsManager.IsUserDisabled
ManagerIsUserDisabled(us, u) == IF u \notin DOMAIN us THEN FALSE ELSE us[u].Disabled

\* StatsManager.DisableUser: the map afterwards and the value returned
DisableUser(us, u, t) ==
    IF u \notin DOMAIN us
      THEN [us |-> us @@ (u :> [NewUserStats(t) EXCEPT !.Disabled = TRUE]),
            changed |-> TRUE]
    ELSE IF us[u].Disabled THEN [us |-> us, changed |-> FALSE]
    ELSE [us |-> [us EXCEPT ![u].Disabled = TRUE], changed |-> TRUE]

\* StatsManager.EnableUser: the map afterwards and the value returned
EnableUser(us, u, t) ==
    IF u \notin DOMAIN us
      THEN [us |-> us @@ (u :> NewUserStats(t)), changed |-> TRUE]
    ELSE IF ~us[u].Disabled THEN [us |-> us, changed |-> FALSE]
    ELSE [us |-> [us EXCEPT ![u].Disabled = FALSE], changed |-> TRUE]

\* MigrateFromJSON: the statement executed for one legacy user
MigrateUser(t, u, us) ==
    LET dis == IF us.Disabled THEN 1 ELSE 0
        first == FormatRFC3339(us.ConnectedSince)
        last == FormatRFC3339(us.LastAccess)
    IN IF u \in DOMAIN t
         THEN [t EXCEPT ![u].total_download = @ + us.TotalBytes,
                        ![u].conn_count = @ + us.ConnectionCount,
                        ![u].request_count = @ + us.RequestsCount,
                        ![u].first_seen = TextMin(@, first),
                        ![u].last_access = TextMax(@, last),
                        ![u].disabled = dis]
         ELSE t @@ (u :> [total_upload |-> 0, total_download |-> us.TotalBytes,
                          conn_count |-> us.ConnectionCount,
                          request_count |-> us.RequestsCount,
                          first_seen |-> first, last_access |-> last,
                          disabled |-> dis])

\* MigrateFromJSON: the user table after the statements of the users in S
RECURSIVE MigrateUsers(_, _, _)
MigrateUsers(t, userStats, S) ==
    IF S = {} THEN t
    ELSE LET u == CHOOSE x \in S : TRUE IN
         MigrateUsers(MigrateUser(t, u, userStats[u]), userStats, S \ {u})

\* StatsDB.MigrateFromJSON; migrateErr: a statement or the commit fails and
\* the deferred Rollback undoes the transaction
MigrateFromJSON(d, userStats, migrateErr) ==
    IF migrateErr THEN d
    ELSE [d EXCEPT !.user_stats = MigrateUsers(@, userStats, DOMAIN userStats)]

\* "minute < ?" / "hour < ?": TEXT comparison of a bucket key with a cutoff.
\* Both are written in one fixed-width layout, so the byte-wise order is the
\* order of the truncated instants.
MutBucketLessOrEqual(key, cutoff) == key[2] <= cutoff[2]
BucketLess(key, cutoff) == key[2] < cutoff[2]

\* DELETE FROM <bucket table> WHERE <bucket> < cutoff
DeleteOlder(t, cutoff) ==
    [k \in {x \in DOMAIN t : ~BucketLess(x[2], cutoff)} |-> t[k]]

\* StatsDB.CleanupOldData at time t; fail1, fail2: the first, the second
\* DELETE fails.  Both statements are executed, their errors discarded; a
\* failed Exec returns a nil Result, and RowsAffected called on it panics.
CleanupOldData(d, t, minuteDays, hourlyDays, fail1, fail2) ==
    LET minuteCutoff == FormatMinute(t - minuteDays * SecondsPerDay)
        hourlyCutoff == FormatHour(t - hourlyDays * SecondsPerDay)
        d1 == IF fail1 THEN d
              ELSE [d EXCEPT !.minute_stats = DeleteOlder(@, minuteCutoff)]
        d2 == IF fail2 THEN d1
              ELSE [d1 EXCEPT !.hourly_stats = DeleteOlder(@, hourlyCutoff)]
    IN [db |-> d2, panics |-> fail1 \/ fail2]

----------------------------------------------------------------------------
(* The proxy front end: certificates and Proxy.ServeHTTP.                  *)

\* A client certificate: its Common Name, who signed it, and the extended
\* key usage it declares.
Certificate(cn, signedBy, eku) == [cn |-> cn, signedBy |-> signedBy, eku |-> eku]

\* Proxy.verifyClientCert: cert.Verify with Roots = the CA pool and
\* KeyUsages = ClientAuth
verifyClientCert(cert) ==
    /\ cert.signedBy = "ca"
    /\ cert.eku = "clientAuth"

\* getUsernameFromCert
getUsernameFromCert(cert) == cert.cn

\* ServeHTTP: "Check if user is disabled (check new DB first, then legacy)"
DisabledCheck(hasDB, d, us, u, readErr) ==
    IF hasDB THEN IsUserDisabled(d, u, readErr) ELSE ManagerIsUserDisabled(us, u)

\* ServeHTTP: where a request goes, from its method, whether it carries a
\* certificate, whether the certificate verified and what the disabled check
\* answered (evaluated only for a valid certificate).
MutDispatchChecksConnectOnly(method, hasCert, isValid, disabled) ==
    IF ~hasCert
      THEN IF method = "CONNECT" THEN "405 Client certificate required"
           ELSE "default site"
    ELSE IF method = "CONNECT"
      THEN IF isValid
             THEN IF disabled THEN "403" ELSE "tunnel"
             ELSE "405 Invalid client certificate"
    ELSE IF isValid THEN "default site, counted" ELSE "default site"
MutDispatchTrustsAnyCert(method, hasCert, isValid, disabled) ==
    IF ~hasCert
      THEN IF method = "CONNECT" THEN "405 Client certificate required"
           ELSE "default site"
    ELSE IF isValid /\ disabled THEN "403"
    ELSE IF method = "CONNECT" THEN "tunnel"
    ELSE IF isValid THEN "default site, counted" ELSE "default site"
MutDispatchCountsAnyCert(method, hasCert, isValid, disabled) ==
    IF ~hasCert
      THEN IF method = "CONNECT" THEN "405 Client certificate required"
           ELSE "default site"
    ELSE IF isValid /\ disabled THEN "403"
    ELSE IF method = "CONNECT"
      THEN IF isValid THEN "tunnel" ELSE "405 Invalid client certificate"
    ELSE "default site, counted"
Dispatch(method, hasCert, isValid, disabled) ==
    IF ~hasCert
      THEN IF method = "CONNECT" THEN "405 Client certificate required"
           ELSE "default site"
    ELSE IF isValid /\ disabled THEN "403"
    ELSE IF method = "CONNECT"
      THEN IF isValid THEN "tunnel" ELSE "405 Invalid client certificate"
    ELSE IF isValid THEN "default site, counted" ELSE "default site"

----------------------------------------------------------------------------
(* Inputs of the direct store calls and the history the claims refer to.   *)

\* Records passed to BatchUpsert: two with the same user, domain and country
\* but different values, minutes and timestamps (the second older and without
\* country names), and one of another user with no domain, minute, hour or
\* country.
RecA1 == TrafficRecord("alice", "a.com", 1, 2, 1, "US", "United States", "NA",
                       FormatMinute(61), FormatHour(61), 61)
RecA2 == TrafficRecord("alice", "a.com", 3, 1, 2, "US", "", "",
                       FormatMinute(1), FormatHour(1), 1)
RecB1 == TrafficRecord("bob", "", 2, 5, 1, "", "", "",
                       Empty, Empty, 3601)
RecordInputs == {RecA1, RecA2, RecB1}

\* Events passed to Record: two tunnels of one user to one domain within one
\* minute (one bucket), and one of another user with no target address and no
\* timestamp (filed under the time of aggregation).
EvA1 == TrafficEvent("alice", "a.com", "1.1.1.1", 1, 2, 1, "", "", "")
EvA2 == TrafficEvent("alice", "a.com", "1.1.1.1", 3, 1, 31, "", "", "")
EvB1 == TrafficEvent("bob", "b.org", "", 2, 5, ZeroTime, "", "", "")
EventInputs == {EvA1, EvA2, EvB1}

HistInit ==
    [calls    |-> 0,                            \* direct store calls made
     written  |-> [r \in RecordInputs |-> 0],   \* committed records, as a bag
     last     |-> [op |-> "none"],              \* the last store call
     recorded |-> 0,                            \* calls of Record
     dropped  |-> 0,                            \* events Record dropped
     dropAt   |-> "none",                       \* collector position at the last drop
     acceptedN    |-> [u \in Users |-> 0],      \* events Record enqueued, per user
     acceptedUp   |-> [u \in Users |-> 0],      \* their upload bytes
     acceptedDown |-> [u \in Users |-> 0],      \* their download bytes
     atStop    |-> 0,                           \* events enqueued before Stop was called
     lastFlush |-> "none",                      \* result of the last batch write
     finalFlush |-> "none",                     \* result of the flush of the drain
     requests  |-> 0,                           \* requests served by ServeHTTP
     emitted   |-> [i \in 1..MaxRequests |-> 0], \* events the tunnel of request i passed to Record
     moved     |-> [fromClient |-> 0, toServer |-> 0,   \* bytes the sockets of a tunnel
                    fromServer |-> 0, toClient |-> 0,   \* transferred in Read / Write calls,
                    withErr |-> 0],                     \* and in Reads that returned an error
     atSignal  |-> {},                          \* tunnels open when the shutdown began
     starts    |-> 0,                           \* process starts so far
     reads     |-> 0,                           \* reads of the store begun
     seen      |-> {},                          \* states the store had during the last read
     legacy    |-> <<>>,                        \* the legacy file before the first start
     adminCalls |-> 0,                          \* admin enable/disable calls made
     adminFlag |-> [u \in Users |-> "none"]]    \* last admin call that succeeded, per user

\* The state of the parts a specification does not run.
NoCollector ==
    /\ eventCh = <<>> /\ buffer = <<>> /\ buf = <<>> /\ pc = "off"
    /\ done = FALSE /\ stopPc = "idle" /\ failsLeft = 0
NoFrontEnd ==
    /\ UserStats = <<>> /\ tunnels = <<>> /\ resp = [status |-> "none"]
    /\ adminResp = [status |-> "none"]
NoCleanup == cleanupPc = "off"
NoReader == reader = [pc |-> "idle"]

----------------------------------------------------------------------------
(* SpecDB: a client calls the store directly (as the tests do).            *)

InitDB ==
    /\ statsEnabled = TRUE /\ geoIP = "nil" /\ now = 61
    /\ db = EmptyDB /\ hist = HistInit
    /\ NoCollector /\ NoFrontEnd /\ NoCleanup /\ NoReader
    /\ statsFile = <<>>

\* db.BatchUpsert(records)
DBBatchUpsert ==
    /\ hist.calls < MaxCalls
    /\ \E records \in SeqsUpTo(RecordInputs, MaxBatch) :
       \E fail \in FailPoints(records) :
       \E res \in {BatchUpsert(db, records, fail)} :
          /\ db' = res.db
          /\ hist' = [hist EXCEPT
                !.calls = @ + 1,
                !.written = IF res.err THEN @
                            ELSE [r \in RecordInputs |->
                                    @[r] + Cardinality({i \in 1..Len(records) :
                                                          records[i] = r})],
                !.last = [op |-> "BatchUpsert", err |-> res.err,
                          executed |-> IF res.err THEN fail[1]
                                       ELSE Len(BatchStmts(records))]]
    /\ UNCHANGED <<statsFile, reader, cleanupPc, tunnels, statsEnabled, geoIP, now, UserStats, eventCh, buffer, buf,
                   pc, done, stopPc, failsLeft, resp, adminResp>>

\* db.SetUserDisabled(u, disabled); the statement may fail (error returned)
DBSetUserDisabled ==
    /\ hist.calls < MaxCalls
    /\ \E u \in Users, disabled \in BOOLEAN, execErr \in BOOLEAN :
          /\ db' = IF execErr THEN db ELSE SetUserDisabled(db, u, disabled, now)
          /\ hist' = [hist EXCEPT
                !.calls = @ + 1,
                !.last = [op |-> "SetUserDisabled", user |-> u,
                          disabled |-> disabled, err |-> execErr]]
    /\ UNCHANGED <<statsFile, reader, cleanupPc, tunnels, statsEnabled, geoIP, now, UserStats, eventCh, buffer, buf,
                   pc, done, stopPc, failsLeft, resp, adminResp>>

\* db.IncrementRequestCount(u)
DBIncrementRequestCount ==
    /\ hist.calls < MaxCalls
    /\ \E u \in Users, execErr \in BOOLEAN :
          /\ db' = IncrementRequestCount(db, u, now, execErr)
          /\ hist' = [hist EXCEPT
                !.calls = @ + 1,
                !.last = [op |-> "IncrementRequestCount", user |-> u,
                          err |-> execErr]]
    /\ UNCHANGED <<statsFile, reader, cleanupPc, tunnels, statsEnabled, geoIP, now, UserStats, eventCh, buffer, buf,
                   pc, done, stopPc, failsLeft, resp, adminResp>>

NextDB ==
    \/ DBBatchUpsert
    \/ DBSetUserDisabled
    \/ DBIncrementRequestCount

SpecDB == InitDB /\ [][NextDB]_vars

----------------------------------------------------------------------------
(* SpecRetention: the store is written while the cleanup task of main runs  *)
(* CleanupOldData on every tick of its 6-hour ticker.                       *)

MaxTicks == 2
MaxWrites == 2
SixHours == 6 * SecondsPerHour

\* The time the process starts at: three days and 90 seconds into the clock.
StartTime == 3 * SecondsPerDay + 90

\* cfg.Stats.Retention.MinuteStatsDays / HourlyStatsDays
RetentionDays == {0, 1}

\* Timestamps of the records written: one day before the first tick and
\* 60 seconds, 20 seconds before that cutoff and 10 seconds after it (the
\* minute of the cutoff, the hour of the cutoff), and the start time.
WriteTimes ==
    {StartTime + SixHours - SecondsPerDay - 60,
     StartTime + SixHours - SecondsPerDay - 20,
     StartTime + SixHours - SecondsPerDay + 10,
     StartTime}

\* A record as flush() builds it from one bucket
BucketRecord(u, t) ==
    TrafficRecord(u, "a.com", 1, 2, 1, "US", "United States", "NA",
                  FormatMinute(t), FormatHour(t), t)

InitRetention ==
    /\ statsEnabled = TRUE /\ geoIP = "nil" /\ now = StartTime
    /\ db = EmptyDB /\ hist = HistInit
    /\ NoCollector /\ NoFrontEnd /\ NoReader
    /\ statsFile = <<>>
    /\ cleanupPc = "ticker"

\* db.BatchUpsert of one bucket; the process is running
RetentionWrite ==
    /\ cleanupPc = "ticker"
    /\ hist.calls < MaxWrites
    /\ \E u \in Users, t \in WriteTimes :
       \E res \in {BatchUpsert(db, <<BucketRecord(u, t)>>, <<>>)} :
          /\ db' = res.db
          /\ hist' = [hist EXCEPT !.calls = @ + 1,
                                  !.last = [op |-> "BatchUpsert", err |-> res.err,
                                            executed |-> 5]]
    /\ UNCHANGED <<statsFile, reader, cleanupPc, tunnels, statsEnabled, geoIP, now, UserStats, eventCh,
                   buffer, buf, pc, done, stopPc, failsLeft, resp, adminResp>>

\* One round of "for range ticker.C { statsDB.CleanupOldData(...) }": six
\* hours pass, the call is made; a panic in it ends the process.
CleanupTick ==
    /\ cleanupPc = "ticker"
    /\ now < StartTime + MaxTicks * SixHours
    /\ now' = now + SixHours
    /\ \E minuteDays \in RetentionDays, hourlyDays \in RetentionDays,
          fail1 \in BOOLEAN, fail2 \in BOOLEAN :
       \E res \in {CleanupOldData(db, now', minuteDays, hourlyDays, fail1, fail2)} :
          /\ db' = res.db
          /\ cleanupPc' = IF res.panics THEN "panicked" ELSE "ticker"
          /\ hist' = [hist EXCEPT
                !.last = [op |-> "CleanupOldData", minuteDays |-> minuteDays,
                          hourlyDays |-> hourlyDays, err1 |-> fail1,
                          err2 |-> fail2]]
    /\ UNCHANGED <<statsFile, reader, tunnels, statsEnabled, geoIP, UserStats,
                   eventCh, buffer, buf, pc, done, stopPc, failsLeft, resp,
                   adminResp>>

NextRetention ==
    \/ RetentionWrite
    \/ CleanupTick

SpecRetention == InitRetention /\ [][NextRetention]_vars

----------------------------------------------------------------------------
(* SpecFlags: the direct store calls of SpecDB, and CleanupOldData called   *)
(* directly as well.  A panic in CleanupOldData ends the calling process.   *)

Running == cleanupPc # "panicked"

\* db.CleanupOldData(minuteDays, hourlyDays)
DBCleanupOldData ==
    /\ Running
    /\ \E minuteDays \in RetentionDays, hourlyDays \in RetentionDays,
          fail1 \in BOOLEAN, fail2 \in BOOLEAN :
       \E res \in {CleanupOldData(db, now, minuteDays, hourlyDays, fail1, fail2)} :
          /\ db' = res.db
          /\ cleanupPc' = IF res.panics THEN "panicked" ELSE cleanupPc
          /\ hist' = [hist EXCEPT
                !.last = [op |-> "CleanupOldData", minuteDays |-> minuteDays,
                          hourlyDays |-> hourlyDays, err1 |-> fail1,
                          err2 |-> fail2]]
    /\ UNCHANGED <<statsFile, reader, tunnels, statsEnabled, geoIP, now, UserStats,
                   eventCh, buffer, buf, pc, done, stopPc, failsLeft, resp,
                   adminResp>>

NextFlags ==
    \/ Running /\ DBBatchUpsert
    \/ Running /\ DBSetUserDisabled
    \/ Running /\ DBIncrementRequestCount
    \/ DBCleanupOldData

SpecFlags == InitDB /\ [][NextFlags]_vars

----------------------------------------------------------------------------
(* SpecCollector: tunnels call Record, the collector task runs loop, the    *)
(* shutdown handler calls Stop.                                             *)

InitCollector ==
    /\ statsEnabled = TRUE /\ geoIP \in {"nil", "ready"} /\ now = 3601
    /\ db = EmptyDB /\ hist = HistInit
    /\ eventCh = <<>> /\ buffer = <<>> /\ buf = <<>> /\ pc = "select"
    /\ done = FALSE /\ stopPc = "idle" /\ failsLeft = MaxFails
    /\ NoFrontEnd /\ NoCleanup /\ NoReader
    /\ statsFile = <<>>

\* The history after Record was called with the enriched event e and the
\* send result r.
HistRecord(h, e, r, at) ==
    IF r.sent
      THEN [h EXCEPT !.recorded = @ + 1,
                     !.acceptedN[e.Username] = @ + 1,
                     !.acceptedUp[e.Username] = @ + e.Upload,
                     !.acceptedDown[e.Username] = @ + e.Download]
      ELSE [h EXCEPT !.recorded = @ + 1,
                     !.dropped = @ + 1,
                     !.dropAt = at]

\* sc.Record(ev), called by any task
Record ==
    /\ hist.recorded < MaxEvents
    /\ \E ev \in EventInputs :
          LET e == Enrich(ev, geoIP)
              r == TrySend(eventCh, e)
          IN /\ eventCh' = r.ch
             /\ hist' = HistRecord(hist, e, r, pc)
    /\ UNCHANGED <<statsFile, reader, cleanupPc, tunnels, statsEnabled, geoIP, now, UserStats, db, buffer,
                   buf, pc, done, stopPc, failsLeft, resp, adminResp>>

\* loop: case ev := <-sc.eventCh (aggregate, and flush if the buffer is large)
LoopEvent ==
    /\ pc = "select"
    /\ Len(eventCh) > 0
    /\ eventCh' = Tail(eventCh)
    /\ LET b == Aggregate(buffer, Head(eventCh), now) IN
       IF BufferLen(b) >= MaxBuffer
         THEN buf' = b /\ buffer' = <<>> /\ pc' = "write"
         ELSE buffer' = b /\ UNCHANGED <<buf, pc>>
    /\ UNCHANGED <<statsFile, reader, cleanupPc, tunnels, statsEnabled, geoIP, now, UserStats, db, done, stopPc,
                   failsLeft, resp, adminResp, hist>>

\* loop: case <-ticker.C (flush: nothing to do, or swap the buffer out)
LoopTick ==
    /\ pc = "select"
    /\ IF BufferLen(buffer) = 0
         THEN UNCHANGED <<buffer, buf, pc>>
         ELSE buf' = buffer /\ buffer' = <<>> /\ pc' = "write"
    /\ UNCHANGED <<statsFile, reader, cleanupPc, tunnels, statsEnabled, geoIP, now, UserStats, db, eventCh, done,
                   stopPc, failsLeft, resp, adminResp, hist>>

\* flush, after the swap: build the records, BatchUpsert, merge back on error
FlushWrite ==
    /\ pc \in {"write", "finalWrite"}
    /\ \E order \in Orderings(DOMAIN buf) :
       \E records \in {FlushRecords(buf, order)} :
       \E fail \in IF failsLeft > 0 THEN FailPoints(records) ELSE {<<>>} :
       \E res \in {BatchUpsert(db, records, fail)} :
          /\ db' = res.db
          /\ buffer' = IF res.err THEN MergeBack(buffer, buf) ELSE buffer
          /\ failsLeft' = IF res.err THEN failsLeft - 1 ELSE failsLeft
          /\ hist' = [hist EXCEPT
                !.lastFlush = IF res.err THEN "failed" ELSE "ok",
                !.finalFlush = IF pc = "finalWrite"
                                 THEN IF res.err THEN "failed" ELSE "ok"
                                 ELSE @]
    /\ buf' = <<>>
    /\ pc' = IF pc = "write" THEN "select" ELSE "exited"
    /\ UNCHANGED <<statsFile, reader, cleanupPc, tunnels, statsEnabled, geoIP, now, UserStats, eventCh, done, stopPc,
                   resp, adminResp>>

\* loop: case <-sc.done
LoopDone ==
    /\ pc = "select"
    /\ done
    /\ pc' = "drain"
    /\ UNCHANGED <<statsFile, reader, cleanupPc, tunnels, statsEnabled, geoIP, now, UserStats, db, eventCh, buffer,
                   buf, done, stopPc, failsLeft, resp, adminResp, hist>>

\* drain: case ev := <-sc.eventCh
DrainEvent ==
    /\ pc = "drain"
    /\ Len(eventCh) > 0
    /\ eventCh' = Tail(eventCh)
    /\ buffer' = Aggregate(buffer, Head(eventCh), now)
    /\ UNCHANGED <<statsFile, reader, cleanupPc, tunnels, statsEnabled, geoIP, now, UserStats, db, buf, pc, done,
                   stopPc, failsLeft, resp, adminResp, hist>>

\* drain: default (flush and return; wg.Done runs when loop returns)
DrainFlush ==
    /\ pc = "drain"
    /\ Len(eventCh) = 0
    /\ IF BufferLen(buffer) = 0
         THEN /\ pc' = "exited"
              /\ hist' = [hist EXCEPT !.finalFlush = "empty"]
              /\ UNCHANGED <<buffer, buf>>
         ELSE /\ buf' = buffer /\ buffer' = <<>> /\ pc' = "finalWrite"
              /\ UNCHANGED hist
    /\ UNCHANGED <<statsFile, reader, cleanupPc, tunnels, statsEnabled, geoIP, now, UserStats, db, eventCh, done,
                   stopPc, failsLeft, resp, adminResp>>

\* sc.Stop(): close(sc.done) ..., called by a task at position from
StopFrom(from) ==
    /\ stopPc = from
    /\ done' = TRUE
    /\ stopPc' = "waiting"
    /\ hist' = [hist EXCEPT
          !.atStop = SumOver(Users, hist.acceptedN)]
    /\ UNCHANGED <<statsFile, reader, cleanupPc, tunnels, statsEnabled, geoIP, now, UserStats, db, eventCh, buffer,
                   buf, pc, failsLeft, resp, adminResp>>

Stop == StopFrom("idle")

\* sc.wg.Wait(): returns once loop has returned (its deferred wg.Done)
MutWaitReturnsAtOnce(loopPc) == TRUE
WaitGroupWait(loopPc) == loopPc = "exited"

\* ... sc.wg.Wait() returns
StopReturn ==
    /\ stopPc = "waiting"
    /\ WaitGroupWait(pc)
    /\ stopPc' = "returned"
    /\ UNCHANGED <<statsFile, reader, cleanupPc, tunnels, statsEnabled, geoIP, now, UserStats, db, eventCh, buffer,
                   buf, pc, done, failsLeft, resp, adminResp, hist>>

NextCollector ==
    \/ Record
    \/ LoopEvent
    \/ LoopTick
    \/ FlushWrite
    \/ LoopDone
    \/ DrainEvent
    \/ DrainFlush
    \/ Stop
    \/ StopReturn

SpecCollector == InitCollector /\ [][NextCollector]_vars

\* The collector keeps running: nobody calls Stop.  The Go scheduler runs the
\* collector task whenever it can take a step and the ticker keeps firing, so
\* the steps of loop are weakly fair; store writes fail at most MaxFails times.
NextCollectorLive ==
    \/ Record
    \/ LoopEvent
    \/ LoopTick
    \/ FlushWrite

SpecCollectorLive ==
    /\ InitCollector
    /\ [][NextCollectorLive]_vars
    /\ WF_vars(LoopEvent)
    /\ WF_vars(LoopTick)
    /\ WF_vars(FlushWrite)

----------------------------------------------------------------------------
(* SpecProxy: clients send requests to the proxy front end, tunnels close, *)
(* an administrator calls the enable/disable endpoints; with statistics    *)
(* enabled the collector task runs as well.                                *)

\* Client certificates presented: two signed by the CA for client
\* authentication, one signed by another authority, one signed by the CA for
\* server authentication only.
CertInputs ==
    {Certificate("alice", "ca", "clientAuth"),
     Certificate("bob", "ca", "clientAuth"),
     Certificate("alice", "other", "clientAuth"),
     Certificate("bob", "ca", "serverAuth")}

\* r.TLS.PeerCertificates: empty or one certificate
PeerCertificates == {<<>>} \cup {<<c>> : c \in CertInputs}

\* The address a CONNECT target resolves to (conn.RemoteAddr()).
TargetIP == [h \in Domains |-> IF h = "a.com" THEN "1.1.1.1" ELSE "10.0.0.1"]

\* Bytes a tunnel carried, <<upload, download>>: none, or some each way.
ByteCounts == {<<0, 0>>, <<2, 1>>}

\* Legacy statistics files loadStats may find: none, or one with a disabled
\* user and an enabled one.
LegacyFiles ==
    {<<>>,
     ("bob" :> [TotalBytes |-> 5, LastAccess |-> 31, RequestsCount |-> 1,
                ConnectedSince |-> 1, ConnectionCount |-> 2, Disabled |-> TRUE])
     @@ ("alice" :> [TotalBytes |-> 7, LastAccess |-> 31, RequestsCount |-> 0,
                     ConnectedSince |-> 1, ConnectionCount |-> 1,
                     Disabled |-> FALSE])}

\* StatsManager.loadStats: the map the manager starts with
loadStats(enabled, file) == IF enabled THEN file ELSE <<>>

\* main: with statistics enabled the legacy file is loaded and migrated into
\* the (new) database and the collector is started; without, there is no
\* database and no collector, and the manager starts empty.
InitProxy ==
    /\ statsEnabled \in BOOLEAN
    /\ geoIP = IF statsEnabled THEN "ready" ELSE "nil"
    /\ now = 61
    /\ statsFile \in IF statsEnabled THEN LegacyFiles ELSE {<<>>}
    /\ UserStats = loadStats(statsEnabled, statsFile)
    /\ db = IF statsEnabled THEN MigrateFromJSON(EmptyDB, UserStats, FALSE)
            ELSE EmptyDB
    /\ eventCh = <<>> /\ buffer = <<>> /\ buf = <<>>
    /\ pc = IF statsEnabled THEN "select" ELSE "off"
    /\ done = FALSE /\ stopPc = "idle" /\ failsLeft = 0
    /\ tunnels = <<>>
    /\ resp = [status |-> "none"]
    /\ adminResp = [status |-> "none"]
    /\ NoCleanup /\ NoReader
    /\ hist = HistInit

\* Proxy.ServeHTTP, up to the point where a tunnel is established or the
\* request is answered
ServeHTTP ==
    /\ hist.requests < MaxRequests
    /\ \E method \in {"CONNECT", "GET"}, certs \in PeerCertificates :
       LET hasCert == Len(certs) > 0
           isValid == hasCert /\ verifyClientCert(certs[1])
           username == IF hasCert THEN getUsernameFromCert(certs[1]) ELSE ""
       IN
       \E readErr \in IF isValid /\ statsEnabled THEN BOOLEAN ELSE {FALSE} :
       LET disabled == isValid /\ DisabledCheck(statsEnabled, db, UserStats,
                                                username, readErr)
           route == Dispatch(method, hasCert, isValid, disabled)
           answer(status, handler) ==
               [method |-> method, certs |-> certs, status |-> status,
                handler |-> handler, lookupErr |-> readErr, countErr |-> FALSE]
       IN
       CASE route \in {"405 Client certificate required",
                       "405 Invalid client certificate"} ->
              /\ resp' = answer("405", "none")
              /\ UNCHANGED <<UserStats, db, tunnels>>
         [] route = "403" ->
              /\ resp' = answer("403", "none")
              /\ UNCHANGED <<UserStats, db, tunnels>>
         [] route = "default site" ->
              /\ resp' = answer("forwarded", "default site")
              /\ UNCHANGED <<UserStats, db, tunnels>>
         [] route = "default site, counted" ->
              /\ UserStats' = RecordRequest(UserStats, statsEnabled, username, now)
              /\ \E execErr \in IF statsEnabled THEN BOOLEAN ELSE {FALSE} :
                    /\ db' = IF statsEnabled
                               THEN IncrementRequestCount(db, username, now, execErr)
                               ELSE db
                    /\ resp' = [answer("forwarded", "default site")
                                  EXCEPT !.countErr = execErr]
              /\ UNCHANGED tunnels
         [] route = "tunnel" ->
              /\ UserStats' = RecordConnection(UserStats, statsEnabled, username, now)
              /\ \E host \in Domains,
                    outcome \in {"dial failed", "hijack failed", "established"} :
                    CASE outcome = "dial failed" ->
                           /\ resp' = answer("502", "tunnel")
                           /\ UNCHANGED tunnels
                      [] outcome = "hijack failed" ->
                           /\ resp' = answer("500", "tunnel")
                           /\ UNCHANGED tunnels
                      [] outcome = "established" ->
                           /\ resp' = answer("200", "tunnel")
                           /\ tunnels' = tunnels @@
                                ((hist.requests + 1) :>
                                   [user |-> username, host |-> host,
                                    targetIP |-> TargetIP[host]])
              /\ UNCHANGED db
    /\ hist' = [hist EXCEPT !.requests = @ + 1]
    /\ UNCHANGED <<statsFile, reader, cleanupPc, statsEnabled, geoIP, now, eventCh, buffer, buf, pc, done,
                   stopPc, failsLeft, adminResp>>

\* handleConnectWithStats, "Emit TrafficEvent to the new async collector":
\* the events a tunnel that ended passes to Record
MutTunnelEventsSkipsEmpty(hasCollector, tn, up, down, t) ==
    IF hasCollector /\ up + down > 0
      THEN <<TrafficEvent(tn.user, tn.host, tn.targetIP, up, down, t, "", "", "")>>
      ELSE <<>>
TunnelEvents(hasCollector, tn, up, down, t) ==
    IF hasCollector
      THEN <<TrafficEvent(tn.user, tn.host, tn.targetIP, up, down, t, "", "", "")>>
      ELSE <<>>

\* handleConnectWithStats, after both copy loops ended (at end of input or
\* with an error, which io.CopyBuffer returns and the handler drops):
\* RecordTraffic and the TrafficEvent passed to the collector
TunnelClose ==
    \E id \in DOMAIN tunnels, bytes \in ByteCounts, copyErr \in BOOLEAN :
       LET tn == tunnels[id]
           up == bytes[1]
           down == bytes[2]
           evs == TunnelEvents(statsEnabled, tn, up, down, now)
           end == [op |-> "tunnel end", id |-> id, bytes |-> bytes,
                   copyErr |-> copyErr]
       IN /\ UserStats' = RecordTraffic(UserStats, statsEnabled, tn.user,
                                        up + down, now)
          /\ IF evs # <<>>
               THEN LET e == Enrich(evs[1], geoIP)
                        r == TrySend(eventCh, e)
                    IN /\ eventCh' = r.ch
                       /\ hist' = [HistRecord(hist, e, r, pc) EXCEPT
                                     !.emitted[id] = @ + 1, !.last = end]
               ELSE /\ UNCHANGED eventCh
                    /\ hist' = [hist EXCEPT !.last = end]
          /\ tunnels' = [i \in DOMAIN tunnels \ {id} |-> tunnels[i]]
          /\ UNCHANGED <<statsFile, reader, cleanupPc, statsEnabled, geoIP, now, db, buffer, buf, pc, done,
                         stopPc, failsLeft, resp, adminResp>>

\* The checks both admin handlers start with: the status they answer.
AdminStatus(hasCert, method, username) ==
    IF ~hasCert THEN "401"
    ELSE IF method # "POST" THEN "405"
    ELSE IF username = "" THEN "400"
    ELSE "200"

\* AdminServer.handleAPIDisableUser
handleAPIDisableUser ==
    /\ hist.adminCalls < MaxAdminCalls
    /\ \E hasCert \in BOOLEAN, method \in {"POST", "GET"},
          username \in Users \cup {""} :
          LET status == AdminStatus(hasCert, method, username)
              res == DisableUser(UserStats, username, now)
          IN IF status = "200"
               THEN /\ UserStats' = res.us
                    /\ adminResp' = [op |-> "disable", status |-> status,
                                     success |-> TRUE, username |-> username,
                                     enabled |-> FALSE, changed |-> res.changed]
                    /\ hist' = [hist EXCEPT !.adminCalls = @ + 1,
                                            !.adminFlag[username] = "disabled"]
               ELSE /\ adminResp' = [op |-> "disable", status |-> status,
                                     success |-> FALSE]
                    /\ hist' = [hist EXCEPT !.adminCalls = @ + 1]
                    /\ UNCHANGED UserStats
    /\ UNCHANGED <<statsFile, reader, cleanupPc, statsEnabled, geoIP, now, db, eventCh, buffer, buf, pc,
                   done, stopPc, failsLeft, tunnels, resp>>

\* AdminServer.handleAPIEnableUser
handleAPIEnableUser ==
    /\ hist.adminCalls < MaxAdminCalls
    /\ \E hasCert \in BOOLEAN, method \in {"POST", "GET"},
          username \in Users \cup {""} :
          LET status == AdminStatus(hasCert, method, username)
              res == EnableUser(UserStats, username, now)
          IN IF status = "200"
               THEN /\ UserStats' = res.us
                    /\ adminResp' = [op |-> "enable", status |-> status,
                                     success |-> TRUE, username |-> username,
                                     enabled |-> TRUE, changed |-> res.changed]
                    /\ hist' = [hist EXCEPT !.adminCalls = @ + 1,
                                            !.adminFlag[username] = "enabled"]
               ELSE /\ adminResp' = [op |-> "enable", status |-> status,
                                     success |-> FALSE]
                    /\ hist' = [hist EXCEPT !.adminCalls = @ + 1]
                    /\ UNCHANGED UserStats
    /\ UNCHANGED <<statsFile, reader, cleanupPc, statsEnabled, geoIP, now, db, eventCh, buffer, buf, pc,
                   done, stopPc, failsLeft, tunnels, resp>>

NextProxy ==
    \/ ServeHTTP
    \/ TunnelClose
    \/ handleAPIDisableUser
    \/ handleAPIEnableUser
    \/ LoopEvent
    \/ LoopTick
    \/ FlushWrite

SpecProxy == InitProxy /\ [][NextProxy]_vars

----------------------------------------------------------------------------
(* SpecShutdown: the proxy serves requests and tunnels, the collector runs, *)
(* and the task of setupGracefulShutdown receives SIGINT/SIGTERM.           *)

\* StatsManager.SaveStats: the file after the save
SaveStats(enabled, file, us) == IF enabled THEN us ELSE file

\* main, with statistics enabled and no legacy file: empty manager, new
\* database, collector started, listeners open.
InitShutdown ==
    /\ statsEnabled = TRUE /\ geoIP = "nil" /\ now = 61
    /\ statsFile = <<>>
    /\ UserStats = loadStats(statsEnabled, statsFile)
    /\ db = MigrateFromJSON(EmptyDB, UserStats, FALSE)
    /\ eventCh = <<>> /\ buffer = <<>> /\ buf = <<>> /\ pc = "select"
    /\ done = FALSE /\ stopPc = "idle" /\ failsLeft = MaxFails
    /\ tunnels = <<>>
    /\ resp = [status |-> "none"]
    /\ adminResp = [status |-> "none"]
    /\ NoCleanup /\ NoReader
    /\ hist = HistInit

\* The process runs until os.Exit.
Alive == stopPc # "exited"

\* A request is served while the listener of the server is open.
Serve == stopPc = "idle" /\ ServeHTTP

\* A tunnel ends (both copies returned) while the process runs.
TunnelEnd == Alive /\ TunnelClose

\* Shutdown task, "<-c" to adminServer.Stop(): the signal arrives,
\* server.Close() closes the listeners (not the hijacked connections of the
\* tunnels), the admin server is stopped.
Signal ==
    /\ stopPc = "idle"
    /\ stopPc' = "signalled"
    /\ hist' = [hist EXCEPT !.atSignal = DOMAIN tunnels]
    /\ UNCHANGED <<statsFile, reader, cleanupPc, tunnels, statsEnabled, geoIP, now,
                   UserStats, db, eventCh, buffer, buf, pc, done, failsLeft,
                   resp, adminResp>>

\* Shutdown task: statsCollector.Stop(), up to the wait
CollectorStop == StopFrom("signalled")

\* Shutdown task: statsDB.Close()
CloseStore ==
    /\ stopPc = "returned"
    /\ stopPc' = "dbClosed"
    /\ UNCHANGED <<statsFile, reader, cleanupPc, tunnels, statsEnabled, geoIP, now,
                   UserStats, db, eventCh, buffer, buf, pc, done, failsLeft,
                   resp, adminResp, hist>>

\* Shutdown task: geoIP.Close(), statsManager.Stop() (the legacy file is
\* saved), os.Exit(0): every task of the process ends here.
Exit ==
    /\ stopPc = "dbClosed"
    /\ stopPc' = "exited"
    /\ statsFile' = SaveStats(statsEnabled, statsFile, UserStats)
    /\ UNCHANGED <<reader, cleanupPc, tunnels, statsEnabled, geoIP, now,
                   UserStats, db, eventCh, buffer, buf, pc, done, failsLeft,
                   resp, adminResp, hist>>

NextShutdown ==
    \/ Serve
    \/ TunnelEnd
    \/ Alive /\ LoopEvent
    \/ Alive /\ LoopTick
    \/ Alive /\ FlushWrite
    \/ Alive /\ LoopDone
    \/ Alive /\ DrainEvent
    \/ Alive /\ DrainFlush
    \/ Signal
    \/ CollectorStop
    \/ StopReturn
    \/ CloseStore
    \/ Exit

SpecShutdown == InitShutdown /\ [][NextShutdown]_vars

----------------------------------------------------------------------------
(* SpecRestart: the process is started, serves, is shut down by a signal   *)
(* and is started again; the legacy file and the database stay on disk.    *)

MaxStarts == 2

\* Before the first start: a legacy file (or none) and no database yet.
InitRestart ==
    /\ statsEnabled = TRUE /\ geoIP = "nil" /\ now = 61
    /\ statsFile \in LegacyFiles
    /\ UserStats = <<>>
    /\ db = EmptyDB
    /\ eventCh = <<>> /\ buffer = <<>> /\ buf = <<>> /\ pc = "exited"
    /\ done = FALSE /\ stopPc = "exited" /\ failsLeft = MaxFails
    /\ tunnels = <<>>
    /\ resp = [status |-> "none"]
    /\ adminResp = [status |-> "none"]
    /\ NoCleanup /\ NoReader
    /\ hist = [HistInit EXCEPT !.legacy = statsFile]

\* main, with statistics enabled: NewStatsManager loads the legacy file,
\* NewStatsDB opens the database (creating it when missing), the collector
\* is started, and the loaded statistics, when there are any, are passed to
\* MigrateFromJSON, whose error is only logged.
Start ==
    /\ stopPc = "exited"
    /\ hist.starts < MaxStarts
    /\ \E us \in {loadStats(statsEnabled, statsFile)}, migrateErr \in BOOLEAN :
          /\ UserStats' = us
          /\ db' = IF DOMAIN us # {} THEN MigrateFromJSON(db, us, migrateErr)
                   ELSE db
    /\ eventCh' = <<>> /\ buffer' = <<>> /\ buf' = <<>> /\ pc' = "select"
    /\ done' = FALSE /\ stopPc' = "idle"
    /\ tunnels' = <<>>
    /\ resp' = [status |-> "none"]
    /\ hist' = [hist EXCEPT !.starts = @ + 1,
                            !.atSignal = {},
                            !.atStop = 0,
                            !.dropAt = "none",
                            !.lastFlush = "none",
                            !.finalFlush = "none"]
    /\ UNCHANGED <<statsFile, reader, cleanupPc, statsEnabled, geoIP, now,
                   failsLeft, adminResp>>

NextRestart ==
    \/ Start
    \/ NextShutdown

SpecRestart == InitRestart /\ [][NextRestart]_vars

----------------------------------------------------------------------------
(* SpecReaders: the admin API reads the store (overview, top domains)      *)
(* while the collector commits batches.  The database runs in WAL mode:    *)
(* every statement of a reader sees one committed state.                   *)

MaxReads == 2
DefaultLimit == 50

\* Records of the batches: one domain used by two users (with equal
\* traffic), a second domain, two countries.
RecB2 == TrafficRecord("bob", "a.com", 2, 1, 1, "US", "United States", "NA",
                       FormatMinute(61), FormatHour(61), 61)
RecA3 == TrafficRecord("alice", "b.org", 3, 2, 1, "JP", "Japan", "AS",
                       FormatMinute(61), FormatHour(61), 61)
ReaderRecords == {RecA1, RecB2, RecA3}

\* The batches the collector writes.
ReaderBatches == {<<RecA1>>, <<RecB2, RecA3>>, <<RecA1, RecB2>>}

\* An INTEGER value of a query result, and Scan of it into a Go integer
Integer(n) == <<n>>
ScanInteger(v) == v[1]

\* SQL SUM(col) over the rows of table t: NULL without rows
SqlSum(t, col) ==
    IF DOMAIN t = {} THEN Empty
    ELSE Integer(SumOver(DOMAIN t, [k \in DOMAIN t |-> t[k][col]]))

\* SQL COUNT(DISTINCT col) for the i-th column of the key of table t
MutCountDistinctCountsRows(t, i) == Cardinality(DOMAIN t)
CountDistinct(t, i) == Cardinality({k[i] : k \in DOMAIN t})

\* GetOverview, first query: the sums and the number of the User Rows
OverviewUsers(d) ==
    [TotalUpload   |->
        ScanInteger(Coalesce(SqlSum(d.user_stats, "total_upload"), Integer(0))),
     TotalDownload |->
        ScanInteger(Coalesce(SqlSum(d.user_stats, "total_download"), Integer(0))),
     TotalConns    |->
        ScanInteger(Coalesce(SqlSum(d.user_stats, "conn_count"), Integer(0))),
     UserCount     |-> Cardinality(DOMAIN d.user_stats)]

\* GetOverview: o := &OverviewStats{} with the first query scanned into it
OverviewStats(users) ==
    [TotalUpload |-> users.TotalUpload, TotalDownload |-> users.TotalDownload,
     TotalConns |-> users.TotalConns, DomainCount |-> 0,
     UserCount |-> users.UserCount, CountryCount |-> 0]

\* GetOverview, second and third query: scanned into the count, which keeps
\* its value when the query fails (the error is dropped)
OverviewDomainCount(d, count, qErr) ==
    IF qErr THEN count ELSE CountDistinct(d.domain_stats, 2)
OverviewCountryCount(d, count, qErr) ==
    IF qErr THEN count ELSE CountDistinct(d.country_stats, 2)

\* strconv.Atoi on a string given as its characters: an optional sign and
\* decimal digits
Digits == <<"0", "1", "2", "3", "4", "5", "6", "7", "8", "9">>
IsDigit(c) == \E i \in 1..10 : Digits[i] = c
DigitValue(c) == (CHOOSE i \in 1..10 : Digits[i] = c) - 1
RECURSIVE DigitsValue(_)
DigitsValue(s) ==
    IF s = <<>> THEN 0
    ELSE 10 * DigitsValue(SubSeq(s, 1, Len(s) - 1)) + DigitValue(s[Len(s)])
Atoi(s) ==
    LET signed == s # <<>> /\ s[1] \in {"+", "-"}
        body == IF signed THEN Tail(s) ELSE s
    IN IF body = <<>> \/ \E i \in 1..Len(body) : ~IsDigit(body[i])
         THEN [n |-> 0, err |-> TRUE]
         ELSE [n |-> IF signed /\ s[1] = "-" THEN 0 - DigitsValue(body)
                     ELSE DigitsValue(body),
               err |-> FALSE]

\* /api/v2/domains: the limit passed to GetTopDomains for the value l of the
\* query parameter "limit" ("" when missing)
MutDomainLimitAcceptsAny(l) ==
    IF l # <<>> /\ ~Atoi(l).err THEN Atoi(l).n ELSE DefaultLimit
DomainLimit(l) ==
    IF l # <<>> /\ ~Atoi(l).err /\ Atoi(l).n > 0 THEN Atoi(l).n
    ELSE DefaultLimit

\* Values of the "limit" parameter: missing, not numbers, not positive,
\* positive.
LimitParams ==
    {<<>>, <<"x">>, <<"1", "x">>, <<"0">>, <<"-", "1">>, <<"1">>, <<"2">>,
     <<"+", "2">>}

\* One row of GetTopDomains' result
DomainRow(d, k) ==
    [User |-> k[1], Domain |-> k[2],
     Upload |-> d.domain_stats[k].upload,
     Download |-> d.domain_stats[k].download,
     ConnCount |-> d.domain_stats[k].conn_count,
     LastSeen |-> Coalesce(d.domain_stats[k].last_seen, Text(""))]

\* StatsDB.GetTopDomains: the results the query can give (rows of equal
\* traffic come in any order).  SQLite takes a negative LIMIT as no limit.
GetTopDomains(d, limit, user) ==
    LET keys == {k \in DOMAIN d.domain_stats : user = "" \/ k[1] = user}
        traffic(k) == d.domain_stats[k].upload + d.domain_stats[k].download
        ordered == {o \in Orderings(keys) :
                      \A i \in 1..Len(o), j \in 1..Len(o) :
                         i < j => traffic(o[i]) >= traffic(o[j])}
        n == IF limit < 0 \/ limit > Cardinality(keys)
               THEN Cardinality(keys) ELSE limit
    IN {[i \in 1..n |-> DomainRow(d, o[i])] : o \in ordered}

\* The store with nothing committed yet; no read begun.
InitReaders ==
    /\ statsEnabled = TRUE /\ geoIP = "nil" /\ now = 61
    /\ db = EmptyDB /\ hist = HistInit
    /\ NoCollector /\ NoFrontEnd /\ NoCleanup /\ NoReader
    /\ statsFile = <<>>

\* What a step of a reader or of the writer leaves alone.
ReadersFrame ==
    UNCHANGED <<statsFile, cleanupPc, tunnels, statsEnabled, geoIP, now,
                UserStats, eventCh, buffer, buf, pc, done, stopPc, failsLeft,
                resp, adminResp>>

\* The collector's BatchUpsert commits (or fails and is rolled back) while a
\* read may be under way.
WriterBatchUpsert ==
    /\ hist.calls < MaxCalls
    /\ \E records \in ReaderBatches :
       \E fail \in FailPoints(records) :
       \E res \in {BatchUpsert(db, records, fail)} :
          /\ db' = res.db
          /\ hist' = [hist EXCEPT
                !.calls = @ + 1,
                !.seen = IF reader.pc \in {"domains", "countries"}
                           THEN @ \cup {res.db} ELSE @]
    /\ UNCHANGED reader
    /\ ReadersFrame

\* A new read can begin when none is under way.
CanRead == reader.pc \in {"idle", "returned"} /\ hist.reads < MaxReads

\* /api/v2/overview, GetOverview up to its first query: on an error
\* GetOverview returns it and the endpoint answers 500
OverviewBegin ==
    /\ CanRead
    /\ \E qErr \in BOOLEAN :
          reader' = IF qErr
                      THEN [pc |-> "returned", op |-> "overview", err |-> TRUE]
                      ELSE [pc |-> "domains", o |-> OverviewStats(OverviewUsers(db)),
                            dropped |-> FALSE]
    /\ hist' = [hist EXCEPT !.reads = @ + 1, !.seen = {db}]
    /\ UNCHANGED db
    /\ ReadersFrame

\* GetOverview: SELECT COUNT(DISTINCT domain) FROM domain_stats
OverviewDomains ==
    /\ reader.pc = "domains"
    /\ \E qErr \in BOOLEAN :
          reader' = [reader EXCEPT
                       !.pc = "countries",
                       !.o.DomainCount = OverviewDomainCount(db, @, qErr),
                       !.dropped = @ \/ qErr]
    /\ UNCHANGED <<db, hist>>
    /\ ReadersFrame

\* GetOverview: SELECT COUNT(DISTINCT country) FROM country_stats; return
OverviewCountries ==
    /\ reader.pc = "countries"
    /\ \E qErr \in BOOLEAN :
          reader' = [pc |-> "returned", op |-> "overview", err |-> FALSE,
                     o |-> [reader.o EXCEPT
                              !.CountryCount = OverviewCountryCount(db, @, qErr)],
                     dropped |-> reader.dropped \/ qErr]
    /\ UNCHANGED <<db, hist>>
    /\ ReadersFrame

\* /api/v2/domains (with a database): the limit is taken from the query,
\* GetTopDomains runs its one query
handleDomains ==
    /\ CanRead
    /\ \E l \in LimitParams, user \in Users \cup {""}, qErr \in BOOLEAN :
          IF qErr
            THEN reader' = [pc |-> "returned", op |-> "domains", err |-> TRUE]
            ELSE \E rows \in GetTopDomains(db, DomainLimit(l), user) :
                    reader' = [pc |-> "returned", op |-> "domains",
                               err |-> FALSE, param |-> l, user |-> user,
                               limit |-> DomainLimit(l), rows |-> rows]
    /\ hist' = [hist EXCEPT !.reads = @ + 1, !.seen = {db}]
    /\ UNCHANGED db
    /\ ReadersFrame

NextReaders ==
    \/ WriterBatchUpsert
    \/ OverviewBegin
    \/ OverviewDomains
    \/ OverviewCountries
    \/ handleDomains

SpecReaders == InitReaders /\ [][NextReaders]_vars

----------------------------------------------------------------------------
(* SpecTunnel: one established tunnel of handleConnectWithStats, step by   *)
(* step: the upload task (client to server), the download copy of the      *)
(* handler (server to client), and the two peers.                          *)

\* Bytes each peer may send during the tunnel.
MaxSend == 2

\* What a Read of a connection can return, as <<n, err>>: from a connection
\* this side has closed an error at once; else up to the bytes that arrived,
\* with an error if the connection broke; with nothing left, EOF after the
\* peer closed and an error after the connection broke.  No pair: the call
\* blocks.
ReadOutcomes(avail, end, closedHere) ==
    IF closedHere THEN {<<0, "err">>}
    ELSE {<<n, "nil">> : n \in 1..avail}
         \cup (IF end = "err" THEN {<<n, "err">> : n \in 0..avail} ELSE {})
         \cup (IF end = "eof" /\ avail = 0 THEN {<<0, "EOF">>} ELSE {})

\* What a Write of n bytes can return: all written, or, once the peer closed
\* or the connection broke, fewer with an error.
WriteOutcomes(n, end) ==
    {<<n, "nil">>}
    \cup (IF end # "open" THEN {<<m, "err">> : m \in 0..n} ELSE {})

\* CountingReader.Read / CountingWriter.Write: the count after a call of the
\* underlying stream returned n and err
MutCountBytesOnSuccess(count, n, err) == IF err = "nil" THEN count + n ELSE count
CountBytes(count, n, err) == count + n

\* "<-done": the receive returns once the channel is closed
MutDoneReceiveNeverBlocks(doneClosed) == TRUE
DoneReceive(doneClosed) == doneClosed

\* handleConnectWithStats at "Create counting wrappers": both copies about to
\* read, nothing sent, nothing counted
NewPiping(user, host, targetIP) ==
    [user |-> user, host |-> host, targetIP |-> targetIP,
     upPc |-> "read", upChunk |-> 0, upErr |-> "nil",
     downPc |-> "read", downChunk |-> 0, downErr |-> "nil",
     connClosed |-> FALSE, doneClosed |-> FALSE, copyErr |-> FALSE,
     clientIn |-> 0, clientEnd |-> "open", clientSent |-> 0,
     serverIn |-> 0, serverEnd |-> "open", serverSent |-> 0,
     clientRead |-> 0, serverWritten |-> 0,
     serverRead |-> 0, clientWritten |-> 0,
     statusErr |-> FALSE]

\* handleConnectWithStats after Hijack: the status line is about to be
\* written, no copy has started
Hijacked(user, host, targetIP) ==
    [NewPiping(user, host, targetIP) EXCEPT !.upPc = "status",
                                            !.downPc = "status"]

\* After a CONNECT of alice was handed to the tunnel handler, the target
\* was dialled and the client connection hijacked.
InitTunnel ==
    /\ statsEnabled = TRUE /\ geoIP = "nil" /\ now = 61
    /\ statsFile = <<>>
    /\ UserStats = RecordConnection(<<>>, TRUE, "alice", now)
    /\ db = EmptyDB
    /\ eventCh = <<>> /\ buffer = <<>> /\ buf = <<>> /\ pc = "select"
    /\ done = FALSE /\ stopPc = "idle" /\ failsLeft = 0
    /\ tunnels = (1 :> Hijacked("alice", "a.com", TargetIP["a.com"]))
    /\ resp = [method |-> "CONNECT",
               certs |-> <<Certificate("alice", "ca", "clientAuth")>>,
               status |-> "200", handler |-> "tunnel", lookupErr |-> FALSE,
               countErr |-> FALSE]
    /\ adminResp = [status |-> "none"]
    /\ NoCleanup /\ NoReader
    /\ hist = [HistInit EXCEPT !.requests = 1]

\* What no step of a tunnel changes but its last.
TunnelFrame ==
    UNCHANGED <<statsFile, reader, cleanupPc, statsEnabled, geoIP, now, db,
                buffer, buf, pc, done, stopPc, failsLeft, resp, adminResp>>

\* The client sends a byte / closes its connection or the connection breaks.
ClientSend ==
    \E id \in DOMAIN tunnels :
       /\ tunnels[id].downPc # "closed"
       /\ tunnels[id].clientEnd = "open"
       /\ tunnels[id].clientSent < MaxSend
       /\ tunnels' = [tunnels EXCEPT ![id].clientIn = @ + 1,
                                     ![id].clientSent = @ + 1]
       /\ TunnelFrame /\ UNCHANGED <<UserStats, eventCh, hist>>
ClientEnd ==
    \E id \in DOMAIN tunnels, end \in {"eof", "err"} :
       /\ tunnels[id].downPc # "closed"
       /\ tunnels[id].clientEnd = "open"
       /\ tunnels' = [tunnels EXCEPT ![id].clientEnd = end]
       /\ TunnelFrame /\ UNCHANGED <<UserStats, eventCh, hist>>

\* The upstream server sends a byte / closes or the connection breaks.
ServerSend ==
    \E id \in DOMAIN tunnels :
       /\ tunnels[id].downPc # "closed"
       /\ tunnels[id].serverEnd = "open"
       /\ ~tunnels[id].connClosed
       /\ tunnels[id].serverSent < MaxSend
       /\ tunnels' = [tunnels EXCEPT ![id].serverIn = @ + 1,
                                     ![id].serverSent = @ + 1]
       /\ TunnelFrame /\ UNCHANGED <<UserStats, eventCh, hist>>
ServerEnd ==
    \E id \in DOMAIN tunnels, end \in {"eof", "err"} :
       /\ tunnels[id].downPc # "closed"
       /\ tunnels[id].serverEnd = "open"
       /\ tunnels' = [tunnels EXCEPT ![id].serverEnd = end]
       /\ TunnelFrame /\ UNCHANGED <<UserStats, eventCh, hist>>

\* Handler: clientConn.Write("HTTP/1.0 200 Connection established"), whose
\* result is not looked at (it fails when the client connection is dead);
\* the counting wrappers are created and the upload task is started.
WriteStatus ==
    \E id \in DOMAIN tunnels, writeErr \in BOOLEAN :
       LET t == tunnels[id] IN
       /\ t.downPc = "status"
       /\ writeErr => t.clientEnd # "open"
       /\ tunnels' = [tunnels EXCEPT ![id].statusErr = writeErr,
                                     ![id].upPc = "read",
                                     ![id].downPc = "read"]
       /\ TunnelFrame /\ UNCHANGED <<UserStats, eventCh, hist>>

\* Upload task, io.CopyBuffer(serverWriter, clientReader, ...): one Read of
\* the client connection through the counting reader.  With bytes in hand
\* the copy goes on to write them; with none, the error ends the copy.
UploadRead ==
    \E id \in DOMAIN tunnels :
       LET t == tunnels[id] IN
       /\ t.upPc = "read"
       /\ \E o \in ReadOutcomes(t.clientIn, t.clientEnd, FALSE) :
            /\ tunnels' = [tunnels EXCEPT
                  ![id].clientIn = @ - o[1],
                  ![id].clientRead = CountBytes(@, o[1], o[2]),
                  ![id].upChunk = o[1],
                  ![id].upErr = o[2],
                  ![id].copyErr = @ \/ o[2] = "err",
                  ![id].upPc = IF o[1] > 0 THEN "write" ELSE "close"]
            /\ hist' = [hist EXCEPT
                  !.moved.fromClient = @ + o[1],
                  !.moved.withErr = @ + (IF o[2] = "err" THEN o[1] ELSE 0)]
       /\ TunnelFrame /\ UNCHANGED <<UserStats, eventCh>>

\* Upload task: the Write of the bytes in hand to the upstream connection
\* through the counting writer.  A write error, a short write or the error
\* of the Read before ends the copy.
UploadWrite ==
    \E id \in DOMAIN tunnels :
       LET t == tunnels[id] IN
       /\ t.upPc = "write"
       /\ \E o \in WriteOutcomes(t.upChunk, t.serverEnd) :
            /\ tunnels' = [tunnels EXCEPT
                  ![id].serverWritten = CountBytes(@, o[1], o[2]),
                  ![id].upChunk = 0,
                  ![id].copyErr = @ \/ o[2] = "err",
                  ![id].upPc = IF o[2] # "nil" \/ o[1] < t.upChunk
                                    \/ t.upErr # "nil"
                                 THEN "close" ELSE "read"]
            /\ hist' = [hist EXCEPT !.moved.toServer = @ + o[1]]
       /\ TunnelFrame /\ UNCHANGED <<UserStats, eventCh>>

\* Upload task, after its copy returned: conn.Close()
UploadClose ==
    \E id \in DOMAIN tunnels :
       /\ tunnels[id].upPc = "close"
       /\ tunnels' = [tunnels EXCEPT ![id].connClosed = TRUE,
                                     ![id].upPc = "signal"]
       /\ TunnelFrame /\ UNCHANGED <<UserStats, eventCh, hist>>

\* Upload task: close(done); the task ends
UploadSignal ==
    \E id \in DOMAIN tunnels :
       /\ tunnels[id].upPc = "signal"
       /\ tunnels' = [tunnels EXCEPT ![id].doneClosed = TRUE,
                                     ![id].upPc = "exit"]
       /\ TunnelFrame /\ UNCHANGED <<UserStats, eventCh, hist>>

\* Handler, io.CopyBuffer(clientWriter, serverReader, ...): one Read of the
\* upstream connection through the counting reader
DownloadRead ==
    \E id \in DOMAIN tunnels :
       LET t == tunnels[id] IN
       /\ t.downPc = "read"
       /\ \E o \in ReadOutcomes(t.serverIn, t.serverEnd, t.connClosed) :
            /\ tunnels' = [tunnels EXCEPT
                  ![id].serverIn = @ - o[1],
                  ![id].serverRead = CountBytes(@, o[1], o[2]),
                  ![id].downChunk = o[1],
                  ![id].downErr = o[2],
                  ![id].copyErr = @ \/ o[2] = "err",
                  ![id].downPc = IF o[1] > 0 THEN "write" ELSE "wait"]
            /\ hist' = [hist EXCEPT
                  !.moved.fromServer = @ + o[1],
                  !.moved.withErr = @ + (IF o[2] = "err" THEN o[1] ELSE 0)]
       /\ TunnelFrame /\ UNCHANGED <<UserStats, eventCh>>

\* Handler: the Write of the bytes in hand to the client connection through
\* the counting writer; when the copy ends the handler goes to "<-done"
DownloadWrite ==
    \E id \in DOMAIN tunnels :
       LET t == tunnels[id] IN
       /\ t.downPc = "write"
       /\ \E o \in WriteOutcomes(t.downChunk, t.clientEnd) :
            /\ tunnels' = [tunnels EXCEPT
                  ![id].clientWritten = CountBytes(@, o[1], o[2]),
                  ![id].downChunk = 0,
                  ![id].copyErr = @ \/ o[2] = "err",
                  ![id].downPc = IF o[2] # "nil" \/ o[1] < t.downChunk
                                      \/ t.downErr # "nil"
                                   THEN "wait" ELSE "read"]
            /\ hist' = [hist EXCEPT !.moved.toClient = @ + o[1]]
       /\ TunnelFrame /\ UNCHANGED <<UserStats, eventCh>>

\* Handler, from "<-done" to its return: the counts are read, RecordTraffic
\* and Record are called, the deferred Close calls run.
DownloadFinish ==
    \E id \in DOMAIN tunnels :
       LET t == tunnels[id]
           up == t.clientRead
           down == t.serverRead
           evs == TunnelEvents(statsEnabled, t, up, down, now)
           end == [op |-> "tunnel end", id |-> id, bytes |-> <<up, down>>,
                   copyErr |-> t.copyErr]
       IN /\ t.downPc = "wait"
          /\ DoneReceive(t.doneClosed)
          /\ UserStats' = RecordTraffic(UserStats, statsEnabled, t.user,
                                        up + down, now)
          /\ IF evs # <<>>
               THEN LET e == Enrich(evs[1], geoIP)
                        r == TrySend(eventCh, e)
                    IN /\ eventCh' = r.ch
                       /\ hist' = [HistRecord(hist, e, r, pc) EXCEPT
                                     !.emitted[id] = @ + 1, !.last = end]
               ELSE /\ UNCHANGED eventCh
                    /\ hist' = [hist EXCEPT !.last = end]
          /\ tunnels' = [tunnels EXCEPT ![id].downPc = "closed",
                                        ![id].connClosed = TRUE]
          /\ TunnelFrame

\* The steps of the handler and of its upload task.
HandlerStep ==
    \/ WriteStatus
    \/ UploadRead
    \/ UploadWrite
    \/ UploadClose
    \/ UploadSignal
    \/ DownloadRead
    \/ DownloadWrite
    \/ DownloadFinish

NextTunnel ==
    \/ ClientSend
    \/ ClientEnd
    \/ ServerSend
    \/ ServerEnd
    \/ HandlerStep

SpecTunnel == InitTunnel /\ [][NextTunnel]_vars

----------------------------------------------------------------------------
(* Claims about the store, under SpecDB.                                   *)

\* A counter column of the row with key k, 0 when the row is missing.
Col(table, k, col) == IF k \in DOMAIN table THEN table[k][col] ELSE 0

\* What the committed records add up to in one field, over the records S.
SumWritten(w, S, field) == SumOver(S, [r \in S |-> w[r] * r[field]])

UserRecs(u) == {r \in RecordInputs : r.Username = u}
DomainRecs(k) ==
    {r \in RecordInputs : r.Domain # "" /\ <<r.Username, r.Domain>> = k}
MinuteRecs(k) ==
    {r \in RecordInputs : r.Minute # Empty /\ <<r.Username, r.Minute>> = k}
HourRecs(k) ==
    {r \in RecordInputs : r.Hour # Empty /\ <<r.Username, r.Hour>> = k}
CountryRecs(k) ==
    {r \in RecordInputs : r.Country # "" /\ <<r.Username, r.Country>> = k}

UserKeys == Users
DomainKeys == {<<r.Username, r.Domain>> : r \in RecordInputs}
MinuteKeys == {<<r.Username, r.Minute>> : r \in RecordInputs}
HourKeys == {<<r.Username, r.Hour>> : r \in RecordInputs}
CountryKeys == {<<r.Username, r.Country>> : r \in RecordInputs}

\* The rows of database d hold, in upload, download and connection count,
\* exactly what the bag w of records adds up to on top of database d0.
AddsUp(d0, d, w) ==
    /\ \A u \in UserKeys :
         /\ Col(d.user_stats, u, "total_upload")
              = Col(d0.user_stats, u, "total_upload")
                + SumWritten(w, UserRecs(u), "Upload")
         /\ Col(d.user_stats, u, "total_download")
              = Col(d0.user_stats, u, "total_download")
                + SumWritten(w, UserRecs(u), "Download")
         /\ Col(d.user_stats, u, "conn_count")
              = Col(d0.user_stats, u, "conn_count")
                + SumWritten(w, UserRecs(u), "ConnCount")
    /\ \A k \in DomainKeys :
         /\ Col(d.domain_stats, k, "upload")
              = Col(d0.domain_stats, k, "upload")
                + SumWritten(w, DomainRecs(k), "Upload")
         /\ Col(d.domain_stats, k, "download")
              = Col(d0.domain_stats, k, "download")
                + SumWritten(w, DomainRecs(k), "Download")
         /\ Col(d.domain_stats, k, "conn_count")
              = Col(d0.domain_stats, k, "conn_count")
                + SumWritten(w, DomainRecs(k), "ConnCount")
    /\ \A k \in MinuteKeys :
         /\ Col(d.minute_stats, k, "upload")
              = Col(d0.minute_stats, k, "upload")
                + SumWritten(w, MinuteRecs(k), "Upload")
         /\ Col(d.minute_stats, k, "download")
              = Col(d0.minute_stats, k, "download")
                + SumWritten(w, MinuteRecs(k), "Download")
         /\ Col(d.minute_stats, k, "conn_count")
              = Col(d0.minute_stats, k, "conn_count")
                + SumWritten(w, MinuteRecs(k), "ConnCount")
    /\ \A k \in HourKeys :
         /\ Col(d.hourly_stats, k, "upload")
              = Col(d0.hourly_stats, k, "upload")
                + SumWritten(w, HourRecs(k), "Upload")
         /\ Col(d.hourly_stats, k, "download")
              = Col(d0.hourly_stats, k, "download")
                + SumWritten(w, HourRecs(k), "Download")
         /\ Col(d.hourly_stats, k, "conn_count")
              = Col(d0.hourly_stats, k, "conn_count")
                + SumWritten(w, HourRecs(k), "ConnCount")
    /\ \A k \in CountryKeys :
         /\ Col(d.country_stats, k, "upload")
              = Col(d0.country_stats, k, "upload")
                + SumWritten(w, CountryRecs(k), "Upload")
         /\ Col(d.country_stats, k, "download")
              = Col(d0.country_stats, k, "download")
                + SumWritten(w, CountryRecs(k), "Download")
         /\ Col(d.country_stats, k, "conn_count")
              = Col(d0.country_stats, k, "conn_count")
                + SumWritten(w, CountryRecs(k), "ConnCount")

\* Every write of record r is in database d: its User Row and the rows of
\* its non-empty key fields exist.
RowsPresent(d, r) ==
    /\ r.Username \in DOMAIN d.user_stats
    /\ r.Domain # "" => <<r.Username, r.Domain>> \in DOMAIN d.domain_stats
    /\ r.Minute # Empty => <<r.Username, r.Minute>> \in DOMAIN d.minute_stats
    /\ r.Hour # Empty => <<r.Username, r.Hour>> \in DOMAIN d.hourly_stats
    /\ r.Country # "" => <<r.Username, r.Country>> \in DOMAIN d.country_stats

\* C9: BatchUpsert is all-or-nothing.  A call that returns an error (a failed
\* Begin, Prepare, Exec of any statement of any record, or Commit) leaves
\* every row of every table as it was before the call; a call that succeeds
\* leaves all the writes of every record of the batch in the store.
C9_BatchAtomic ==
    [][(hist'.calls # hist.calls /\ hist'.last.op = "BatchUpsert") =>
          IF hist'.last.err
            THEN db' = db
            ELSE LET batch == [r \in RecordInputs |->
                                 hist'.written[r] - hist.written[r]] IN
                 /\ \A r \in RecordInputs : batch[r] > 0 => RowsPresent(db', r)
                 /\ AddsUp(db, db', batch)]_vars

\* C9 witness: a batch of two records failed after the statements of its
\* first record and one of its second had been executed in the transaction.
C9_Witness ==
    /\ hist.last.op = "BatchUpsert"
    /\ hist.last.err
    /\ hist.last.executed >= 4
    /\ hist.calls >= 2
    /\ db # EmptyDB

\* C10: upserts accumulate.  The upload, download and connection count of
\* every User, Domain, Minute, Hour and Country Row equal the sums over all
\* committed records with that key, each counted as often as it was written
\* (K times the record's values for a record written K times, in one batch or
\* in several), whatever the order of the writes.
C10_Accumulate ==
    /\ AddsUp(EmptyDB, db, hist.written)
    /\ \A r \in RecordInputs : hist.written[r] > 0 => RowsPresent(db, r)

\* C10 witness: one record was written three times and a second record with
\* the same user, domain and country once; the Domain Row holds the sum.
C10_Witness ==
    /\ hist.written[RecA1] = 3
    /\ hist.written[RecA2] = 1
    /\ db.domain_stats[<<"alice", "a.com">>].upload = 3 * RecA1.Upload + RecA2.Upload
    /\ db.user_stats["alice"].conn_count = 3 * RecA1.ConnCount + RecA2.ConnCount

----------------------------------------------------------------------------
(* Claims about the proxy front end, under SpecProxy.                      *)

\* The step is a call of ServeHTTP.
IsRequestStep == hist'.requests # hist.requests

\* The request just served carried a certificate signed by the CA and
\* declaring client authentication.
CarriedValidCert(rsp) ==
    /\ Len(rsp.certs) > 0
    /\ rsp.certs[1].signedBy = "ca"
    /\ rsp.certs[1].eku = "clientAuth"

\* The disabled flag of user u where the front end looks it up: the User Row
\* of the store when there is a store, else the StatsManager entry.
StoredDisabled(u) ==
    IF statsEnabled
      THEN u \in DOMAIN db.user_stats /\ db.user_stats[u].disabled # 0
      ELSE u \in DOMAIN UserStats /\ UserStats[u].Disabled

C2_AdminFlagGoverns ==
    [][(IsRequestStep /\ resp'.method = "CONNECT" /\ CarriedValidCert(resp')) =>
         LET u == resp'.certs[1].cn IN
         /\ hist.adminFlag[u] = "disabled" => resp'.status = "403"
         /\ hist.adminFlag[u] = "enabled" => resp'.handler = "tunnel"]_vars

----------------------------------------------------------------------------
(* Claims about the collector, under SpecCollector and SpecCollectorLive.  *)

\* What the buckets of buffer b hold for user u in one field.
BufferSum(b, u, field) ==
    LET K == {k \in DOMAIN b : k.Username = u} IN
    SumOver(K, [k \in K |-> b[k][field]])

\* What the events of queue q hold for user u in one field.
QueueSum(q, u, field) ==
    LET I == {i \in DOMAIN q : q[i].Username = u} IN
    SumOver(I, [i \in I |-> q[i][field]])

QueueCount(q, u) == Cardinality({i \in DOMAIN q : q[i].Username = u})

\* C4: Record never blocks its caller, whatever the collector is doing: it
\* can always be taken, and a call either appends the (enriched) event to the
\* queue when the queue has room, or, when the queue is full, drops the event
\* and leaves the queue, the buffer and the batch being written as they were.
C4_RecordNeverBlocks ==
    /\ [](hist.recorded < MaxEvents => ENABLED Record)
    /\ [][hist'.recorded # hist.recorded =>
            IF Len(eventCh) < QueueCap
              THEN /\ \E ev \in EventInputs :
                        eventCh' = Append(eventCh, Enrich(ev, geoIP))
                   /\ hist'.dropped = hist.dropped
              ELSE /\ eventCh' = eventCh
                   /\ buffer' = buffer
                   /\ buf' = buf
                   /\ hist'.dropped = hist.dropped + 1]_vars

\* C4 witness: Record dropped an event on a full queue while the collector
\* was in the middle of a flush, and the queue is still full.
C4_Witness ==
    /\ hist.dropped > 0
    /\ hist.dropAt = "write"
    /\ pc = "write"
    /\ Len(eventCh) = QueueCap

\* C5: mass conservation.  When no event was dropped and the queue, the
\* buffer and the batch being written are all empty, every user's
\* total_upload and total_download in the store equal the sums of the upload
\* and download bytes of the events recorded for that user (so the sums
\* over all User Rows equal the sums over all events).
C5_MassConservation ==
    (/\ hist.dropped = 0
     /\ Len(eventCh) = 0
     /\ BufferLen(buffer) = 0
     /\ BufferLen(buf) = 0
     /\ pc \in {"select", "drain", "exited"})
    => \A u \in Users :
         /\ Col(db.user_stats, u, "total_upload") = hist.acceptedUp[u]
         /\ Col(db.user_stats, u, "total_download") = hist.acceptedDown[u]

\* C5 witness: three events of two users were recorded, none dropped, a
\* flush succeeded, and queue and buffer are empty.
C5_Witness ==
    /\ hist.dropped = 0
    /\ hist.recorded = 3
    /\ hist.acceptedN["alice"] = 2
    /\ hist.acceptedN["bob"] = 1
    /\ hist.lastFlush = "ok"
    /\ Len(eventCh) = 0
    /\ BufferLen(buffer) = 0
    /\ BufferLen(buf) = 0
    /\ db.user_stats["alice"].total_upload = 4

\* C6: a failed flush loses nothing.  On a step where the batch write
\* fails, every bucket of the swapped-out batch is in the buffer afterwards,
\* holding the upload, download and connection count of the failed bucket
\* plus what the buffer held under that key before, and the store is as it
\* was.
C6_FailedFlushMergesBack ==
    [][(pc \in {"write", "finalWrite"} /\ pc' # pc /\ failsLeft' # failsLeft)
        => /\ db' = db
           /\ \A key \in DOMAIN buf :
                /\ key \in DOMAIN buffer'
                /\ buffer'[key].Upload = buf[key].Upload
                     + (IF key \in DOMAIN buffer THEN buffer[key].Upload ELSE 0)
                /\ buffer'[key].Download = buf[key].Download
                     + (IF key \in DOMAIN buffer THEN buffer[key].Download ELSE 0)
                /\ buffer'[key].ConnCount = buf[key].ConnCount
                     + (IF key \in DOMAIN buffer THEN buffer[key].ConnCount ELSE 0)
           /\ \A key \in DOMAIN buffer : key \in DOMAIN buffer']_vars

\* C6 witness: a batch of two buckets failed to write and is back in the
\* buffer; nothing of it is in the store.
C6_Witness ==
    /\ hist.lastFlush = "failed"
    /\ pc = "select"
    /\ BufferLen(buffer) = 2
    /\ BufferLen(buf) = 0
    /\ db = EmptyDB
    /\ BufferSum(buffer, "alice", "Upload") = hist.acceptedUp["alice"]
    /\ hist.acceptedN["alice"] > 0

\* What has reached the store for every user is what was accepted.
Reflected ==
    \A u \in Users :
       /\ Col(db.user_stats, u, "total_upload") = hist.acceptedUp[u]
       /\ Col(db.user_stats, u, "total_download") = hist.acceptedDown[u]
       /\ Col(db.user_stats, u, "conn_count") = hist.acceptedN[u]

\* C7: at-least-once flush.  While the collector keeps running and store
\* writes fail only finitely often, every accepted event is eventually in
\* the store totals: at every moment there is a later moment at which the
\* upload, download and connection count stored for every user equal those
\* of all the events accepted for that user so far (stored totals never
\* decrease, so an event accepted before that moment is reflected from then
\* on).
C7_EventuallyFlushed == []<>Reflected

\* C7 witness: a write failed, and later every accepted event of both users
\* reached the store.
C7_Witness ==
    /\ failsLeft = 0
    /\ hist.acceptedN["alice"] = 2
    /\ hist.acceptedN["bob"] = 1
    /\ Reflected

----------------------------------------------------------------------------
(* Further claims about the store, under SpecDB.                           *)

\* The step is a call of BatchUpsert that returned nil.
IsCommittedBatch ==
    /\ hist'.calls # hist.calls
    /\ hist'.last.op = "BatchUpsert"
    /\ ~hist'.last.err

\* The records of the batch a BatchUpsert step committed.
BatchRecs == {r \in RecordInputs : hist'.written[r] > hist.written[r]}

\* C11: for each record of a batch BatchUpsert always upserts the User Row,
\* and upserts the Domain, Minute, Hour and Country Row if and only if the
\* record's domain, minute string, hour string and country, respectively, is
\* non-empty (no row with an empty key is ever made); a table whose key field
\* is empty in every record of the batch is left unchanged.
C11_KeyedUpserts ==
    [][IsCommittedBatch =>
         /\ \A r \in BatchRecs :
              /\ r.Username \in DOMAIN db'.user_stats
              /\ Col(db'.user_stats, r.Username, "conn_count")
                   > Col(db.user_stats, r.Username, "conn_count")
              /\ r.Domain # ""
                   <=> <<r.Username, r.Domain>> \in DOMAIN db'.domain_stats
              /\ r.Minute # Empty
                   <=> <<r.Username, r.Minute>> \in DOMAIN db'.minute_stats
              /\ r.Hour # Empty
                   <=> <<r.Username, r.Hour>> \in DOMAIN db'.hourly_stats
              /\ r.Country # ""
                   <=> <<r.Username, r.Country>> \in DOMAIN db'.country_stats
         /\ (\A r \in BatchRecs : r.Domain = "")
              => db'.domain_stats = db.domain_stats
         /\ (\A r \in BatchRecs : r.Minute = Empty)
              => db'.minute_stats = db.minute_stats
         /\ (\A r \in BatchRecs : r.Hour = Empty)
              => db'.hourly_stats = db.hourly_stats
         /\ (\A r \in BatchRecs : r.Country = "")
              => db'.country_stats = db.country_stats]_vars

\* C11 witness: after a batch with domain, minute, hour and country was
\* committed, a batch of the record with none of them was committed: it made
\* the User Row and left the four other tables with the first batch's rows.
C11_Witness ==
    /\ hist.last.op = "BatchUpsert"
    /\ ~hist.last.err
    /\ hist.written[RecA1] = 1
    /\ hist.written[RecB1] = 1
    /\ hist.written[RecA2] = 0
    /\ "bob" \in DOMAIN db.user_stats
    /\ DOMAIN db.domain_stats = {<<"alice", "a.com">>}
    /\ DOMAIN db.minute_stats = {<<"alice", RecA1.Minute>>}
    /\ DOMAIN db.hourly_stats = {<<"alice", RecA1.Hour>>}
    /\ DOMAIN db.country_stats = {<<"alice", "US">>}

\* The timestamps of the committed records among S, and the greatest of a
\* non-empty set of timestamps.
WrittenTimestamps(S) == {r.Timestamp : r \in {x \in S : hist.written[x] > 0}}
Greatest(T) == CHOOSE t \in T : \A x \in T : x <= t

\* C12: after any sequence of BatchUpsert calls, a User Row's last_access
\* (of a row no other call has written: request_count is 0) and a Domain or
\* Country Row's last_seen equal the greatest timestamp among the records
\* written for that key; an upsert with an older timestamp does not move the
\* stored value backwards.
C12_LastIsGreatest ==
    /\ \A u \in DOMAIN db.user_stats :
         (db.user_stats[u].request_count = 0
            /\ WrittenTimestamps(UserRecs(u)) # {})
         => db.user_stats[u].last_access
              = FormatRFC3339(Greatest(WrittenTimestamps(UserRecs(u))))
    /\ \A k \in DOMAIN db.domain_stats :
         db.domain_stats[k].last_seen
           = FormatRFC3339(Greatest(WrittenTimestamps(DomainRecs(k))))
    /\ \A k \in DOMAIN db.country_stats :
         db.country_stats[k].last_seen
           = FormatRFC3339(Greatest(WrittenTimestamps(CountryRecs(k))))

\* C13: every User Row satisfies first_seen <= last_access (as instants) in
\* every reachable store state, whatever calls were made with whatever
\* timestamps.
C13_FirstSeenNotAfterLastAccess ==
    \A u \in DOMAIN db.user_stats :
        db.user_stats[u].first_seen[2] <= db.user_stats[u].last_access[2]

\* The non-empty country names and continents among the committed records
\* of Country Row k.
WrittenNames(k) ==
    {r.CountryName : r \in {x \in CountryRecs(k) :
                              hist.written[x] > 0 /\ x.CountryName # ""}}
WrittenContinents(k) ==
    {r.Continent : r \in {x \in CountryRecs(k) :
                            hist.written[x] > 0 /\ x.Continent # ""}}

\* C14: on an upsert into an existing Country Row, country_name and continent
\* take the incoming value only when the stored value is empty.  So once a
\* record with a name has been written for a Country Row, the row holds a
\* name written for it, whatever records without a name were written later.
C14_CountryNameSurvives ==
    \A k \in DOMAIN db.country_stats :
        /\ WrittenNames(k) # {}
             => db.country_stats[k].country_name \in {Text(n) : n \in WrittenNames(k)}
        /\ WrittenContinents(k) # {}
             => db.country_stats[k].continent \in {Text(c) : c \in WrittenContinents(k)}

\* C15: in every reachable store state and for every (user, domain) pair,
\* the Domain Row's upload + download is at most the User Row's
\* total_upload + total_download of that user.
C15_DomainWithinUser ==
    \A k \in DOMAIN db.domain_stats :
        /\ k[1] \in DOMAIN db.user_stats
        /\ db.domain_stats[k].upload + db.domain_stats[k].download
             <= db.user_stats[k[1]].total_upload
                  + db.user_stats[k[1]].total_download

\* C15 witness: two different records were written to one Domain Row in
\* two calls, and the row holds bytes.
C15_Witness ==
    /\ hist.calls = 2
    /\ hist.written[RecA1] >= 1
    /\ hist.written[RecA2] >= 1
    /\ <<"alice", "a.com">> \in DOMAIN db.domain_stats
    /\ db.domain_stats[<<"alice", "a.com">>].upload
         + db.domain_stats[<<"alice", "a.com">>].download
       >= RecA1.Upload + RecA1.Download + RecA2.Upload + RecA2.Download

\* The step is a call of SetUserDisabled that returned nil.
IsSetDisabledStep ==
    /\ hist'.calls # hist.calls
    /\ hist'.last.op = "SetUserDisabled"
    /\ ~hist'.last.err

\* C18: SetUserDisabled(U, d) creates the User Row of U if it is missing and
\* sets its disabled flag to d without changing any counter (or any other
\* column) of an existing row, or any other row; afterwards IsUserDisabled(U)
\* returns d, and repeating the same call, then or later, leaves the store as
\* after the first call.
C18_SetUserDisabled ==
    [][IsSetDisabledStep =>
         LET u == hist'.last.user
             d == hist'.last.disabled
         IN
         /\ u \in DOMAIN db'.user_stats
         /\ DOMAIN db'.user_stats = DOMAIN db.user_stats \cup {u}
         /\ IsUserDisabled(db', u, FALSE) = d
         /\ u \in DOMAIN db.user_stats =>
              db'.user_stats[u].total_upload = db.user_stats[u].total_upload
              /\ db'.user_stats[u].total_download = db.user_stats[u].total_download
              /\ db'.user_stats[u].conn_count = db.user_stats[u].conn_count
              /\ db'.user_stats[u].request_count = db.user_stats[u].request_count
              /\ db'.user_stats[u].first_seen = db.user_stats[u].first_seen
              /\ db'.user_stats[u].last_access = db.user_stats[u].last_access
         /\ \A x \in DOMAIN db.user_stats \ {u} :
              db'.user_stats[x] = db.user_stats[x]
         /\ [db' EXCEPT !.user_stats = <<>>] = [db EXCEPT !.user_stats = <<>>]
         /\ SetUserDisabled(db', u, d, now') = db'
         /\ SetUserDisabled(db', u, d, now' + SecondsPerMinute) = db']_vars

\* C18 witness: a user with committed traffic was disabled; the row holds
\* the flag and its counters.
C18_Witness ==
    /\ hist.last.op = "SetUserDisabled"
    /\ ~hist.last.err
    /\ hist.last.user = "alice"
    /\ hist.last.disabled
    /\ "alice" \in DOMAIN db.user_stats
    /\ db.user_stats["alice"].disabled = 1
    /\ db.user_stats["alice"].total_upload > 0
    /\ db.user_stats["alice"].conn_count > 0

----------------------------------------------------------------------------
(* Claims about retention, under SpecRetention.                            *)

\* The step is a call of CleanupOldData (made at time now').
IsCleanupStep == now' # now /\ hist'.last.op = "CleanupOldData"

\* The bucket of length len that starts at the instant of key lies entirely
\* before the instant t minus the given number of days.
Expired(key, len, t, days) == key[2] + len <= t - days * SecondsPerDay

C17_FailedDeleteSkipped ==
    [][IsCleanupStep => cleanupPc' = "ticker"]_vars

----------------------------------------------------------------------------
(* Further claims about the proxy front end, under SpecProxy.              *)

\* The request just served was a non-CONNECT request with a valid certificate
\* of user u, and u was not disabled where the front end looks it up.
CountedRequest(u) ==
    /\ IsRequestStep
    /\ resp'.method # "CONNECT"
    /\ CarriedValidCert(resp')
    /\ resp'.certs[1].cn = u
    /\ ~StoredDisabled(u)

\* The request just served was a CONNECT, or carried no certificate, an
\* invalid one or one of a user other than u.
RequestNotOf(u) ==
    /\ IsRequestStep
    /\ \/ resp'.method = "CONNECT"
       \/ ~CarriedValidCert(resp')
       \/ resp'.certs[1].cn # u

\* The connection count and byte totals of u's User Row are as before.
TotalsKept(u) ==
    /\ Col(db'.user_stats, u, "conn_count") = Col(db.user_stats, u, "conn_count")
    /\ Col(db'.user_stats, u, "total_upload")
         = Col(db.user_stats, u, "total_upload")
    /\ Col(db'.user_stats, u, "total_download")
         = Col(db.user_stats, u, "total_download")

EndedTunnels == DOMAIN tunnels \ DOMAIN tunnels'

\* C20: with a collector, each tunnel passes Record exactly one Traffic
\* Event if it reached piping, when it ends (also with zero bytes, also when
\* a copy ended with an error), and none if the dial failed (502) or the
\* client socket could not be hijacked (500); no tunnel ever emits two
\* events, and none while it is open.
C20_OneEventPerTunnel ==
    /\ [](\A id \in DOMAIN hist.emitted :
            /\ hist.emitted[id] <= 1
            /\ id \in DOMAIN tunnels => hist.emitted[id] = 0)
    /\ [][statsEnabled =>
            /\ IsRequestStep =>
                 /\ hist'.recorded = hist.recorded
                 /\ hist'.emitted = hist.emitted
                 /\ eventCh' = eventCh
                 /\ resp'.status \in {"502", "500"} =>
                      tunnels' = tunnels /\ hist'.emitted[hist'.requests] = 0
                 /\ (resp'.handler = "tunnel" /\ resp'.status = "200") =>
                      hist'.requests \in DOMAIN tunnels'
            /\ \A id \in EndedTunnels :
                 /\ hist'.emitted[id] = 1
                 /\ hist'.recorded = hist.recorded + 1
            /\ EndedTunnels = {} => hist'.recorded = hist.recorded]_vars

\* C20 witness: a tunnel that carried no bytes and whose copy ended with an
\* error has ended; it passed one event to Record.
C20_Witness ==
    /\ statsEnabled
    /\ hist.last.op = "tunnel end"
    /\ hist.last.copyErr
    /\ hist.last.bytes = <<0, 0>>
    /\ hist.emitted[hist.last.id] = 1
    /\ hist.recorded = 1
    /\ hist.last.id \notin DOMAIN tunnels

----------------------------------------------------------------------------
(* Claims about one tunnel, under SpecTunnel.                              *)

\* The upload copy (client to server) of tunnel t has returned.
UploadReturned(t) == t.upPc \in {"close", "signal", "exit"}

\* The download copy (server to client) of tunnel t has returned.
DownloadReturned(t) == t.downPc \in {"wait", "closed"}

\* C21: within a tunnel the Traffic Event is emitted only after both the
\* client-to-server copy task and the server-to-client copy have returned,
\* and its byte totals were read after the last byte was counted in either
\* direction: once the event is out, both copies have returned and the
\* counts are, and stay, the totals the event carries.
C21_EventAfterBothCopies ==
    \A id \in DOMAIN tunnels :
        hist.emitted[id] >= 1 =>
            /\ UploadReturned(tunnels[id])
            /\ DownloadReturned(tunnels[id])
            /\ hist.last.bytes = <<tunnels[id].clientRead, tunnels[id].serverRead>>

\* C21 witness: the tunnel carried bytes both ways, the download copy
\* returned at the server's end of stream, the upload task has ended, and
\* the event is out.
C21_Witness ==
    /\ 1 \in DOMAIN tunnels
    /\ hist.emitted[1] = 1
    /\ hist.last.op = "tunnel end"
    /\ hist.last.bytes[1] > 0 /\ hist.last.bytes[2] > 0
    /\ tunnels[1].downErr = "EOF"
    /\ tunnels[1].upPc = "exit"


\* The four counts of a tunnel's counting readers and writers.
Counts(t) == <<t.clientRead, t.serverWritten, t.serverRead, t.clientWritten>>

\* C23: after every step the count of each counting reader and writer of a
\* tunnel is the number of bytes the calls of its socket transferred, calls
\* that returned an error included, and is not less than before the step;
\* and once the tunnel has emitted its Traffic Event, the event's upload is
\* the bytes read from the client socket and its download the bytes read
\* from the upstream socket.
C23_CountsEveryByte ==
    [][\A id \in DOMAIN tunnels :
          /\ Counts(tunnels[id])' = <<hist.moved.fromClient, hist.moved.toServer,
                                      hist.moved.fromServer, hist.moved.toClient>>'
          /\ \A i \in 1..4 : Counts(tunnels[id])'[i] >= Counts(tunnels[id])[i]
          /\ hist.emitted[id]' >= 1 =>
                hist.last.bytes' = <<hist.moved.fromClient,
                                     hist.moved.fromServer>>']_vars

\* C23 witness: a Read that returned an error transferred bytes, both
\* sockets were read from, and the event is out.
C23_Witness ==
    /\ 1 \in DOMAIN tunnels
    /\ hist.emitted[1] = 1
    /\ hist.moved.withErr > 0
    /\ hist.moved.fromClient > 0
    /\ hist.moved.fromServer > 0

\* C30: a tunnel whose download copy has returned and whose handler waits
\* for the upload task has its upstream connection closed.
C30_ClosedBeforeWait ==
    \A id \in DOMAIN tunnels :
        tunnels[id].downPc = "wait" => tunnels[id].connClosed

\* C22: as long as the handler of a tunnel has not returned, once the
\* client or the upstream has closed its connection or the connection broke
\* the handler or its upload task can take a step, whatever the peers do.
C22_EndOfOneSideSuffices ==
    \A id \in DOMAIN tunnels :
        (/\ tunnels[id].downPc # "closed"
         /\ \/ tunnels[id].clientEnd # "open"
            \/ tunnels[id].serverEnd # "open")
        => ENABLED HandlerStep


----------------------------------------------------------------------------
(* Claims about the shutdown, under SpecShutdown.                          *)

\* The positions of the shutdown task from statsDB.Close() on.
StoreClosed == stopPc \in {"dbClosed", "exited"}

C25_OpenTunnelsReported ==
    stopPc = "exited" =>
        /\ \A id \in hist.atSignal : hist.emitted[id] >= 1
        /\ eventCh = <<>>


----------------------------------------------------------------------------
(* Claims about restarts, under SpecRestart.                               *)

\* C26: for every user of the legacy file, the user's row in the store
\* holds in its download total, its connection count and its request count
\* at most the user's legacy total once, on top of what the proxy itself
\* has counted for the user since (the download bytes and the number of the
\* events the collector accepted, the requests served).
C26_LegacyCountedOnce ==
    \A u \in DOMAIN hist.legacy :
        u \in DOMAIN db.user_stats =>
            /\ db.user_stats[u].total_download
                 <= hist.legacy[u].TotalBytes + hist.acceptedDown[u]
            /\ db.user_stats[u].conn_count
                 <= hist.legacy[u].ConnectionCount + hist.acceptedN[u]
            /\ db.user_stats[u].request_count
                 <= hist.legacy[u].RequestsCount + hist.requests


----------------------------------------------------------------------------
(* Claims about reads of the store, under SpecReaders.                     *)

\* A read that returned a result, all of whose queries were answered.
Answered(op) ==
    /\ reader.pc = "returned"
    /\ reader.op = op
    /\ ~reader.err
    /\ op = "overview" => ~reader.dropped

\* C27: the result of every read that was answered is the result of that
\* read on one state of the store, among the states the store had while the
\* read ran: the state before or the state after each batch committed
\* meanwhile.
C27_ReadsOneState ==
    /\ Answered("overview") =>
          \E d \in hist.seen :
             /\ reader.o.TotalUpload = OverviewUsers(d).TotalUpload
             /\ reader.o.TotalDownload = OverviewUsers(d).TotalDownload
             /\ reader.o.TotalConns = OverviewUsers(d).TotalConns
             /\ reader.o.UserCount = OverviewUsers(d).UserCount
             /\ reader.o.DomainCount = CountDistinct(d.domain_stats, 2)
             /\ reader.o.CountryCount = CountDistinct(d.country_stats, 2)
    /\ Answered("domains") =>
          \E d \in hist.seen :
             reader.rows \in GetTopDomains(d, reader.limit, reader.user)

\* The countries of the batches.
CountryCodes == {r.Country : r \in ReaderRecords}

NoLimitParams == {<<>>, <<"x">>, <<"1", "x">>, <<"0">>, <<"-", "1">>}

\* C29: the rows of every answered top-domains read are Domain Rows of the
\* store as it was when the read ran, each once, at most as many as the limit, in non-increasing order
\* of upload + download, of the given user only when one is given, and as
\* many as the limit allows of all the rows that qualify; the endpoint
\* passes the limit 50 when the parameter is missing, not a number or not
\* positive.
C29_TopDomains ==
    Answered("domains") =>
        /\ Cardinality(hist.seen) = 1
        /\ \A d \in hist.seen :
             LET rows == reader.rows
                 key(i) == <<rows[i].User, rows[i].Domain>>
                 qualifying == {k \in DOMAIN d.domain_stats :
                                   reader.user # "" => k[1] = reader.user}
             IN /\ Len(rows) <= reader.limit
                /\ \A i \in 1..Len(rows) :
                      /\ key(i) \in qualifying
                      /\ rows[i].Upload = d.domain_stats[key(i)].upload
                      /\ rows[i].Download = d.domain_stats[key(i)].download
                      /\ rows[i].ConnCount = d.domain_stats[key(i)].conn_count
                /\ \A i \in 1..Len(rows), j \in 1..Len(rows) :
                      /\ i < j => rows[i].Upload + rows[i].Download
                                    >= rows[j].Upload + rows[j].Download
                      /\ i # j => key(i) # key(j)
                /\ Len(rows) < reader.limit
                      => Len(rows) = Cardinality(qualifying)
        /\ reader.param \in NoLimitParams => reader.limit = DefaultLimit

\* C29 witness: a read of all users with limit 2 from a store with three
\* Domain Rows returned two rows, the first with more traffic than the
\* second.
C29_Witness ==
    /\ Answered("domains")
    /\ hist.seen = {db}
    /\ reader.user = ""
    /\ reader.limit = 2
    /\ Cardinality(DOMAIN db.domain_stats) = 3
    /\ Len(reader.rows) = 2
    /\ reader.rows[1].Upload + reader.rows[1].Download
         > reader.rows[2].Upload + reader.rows[2].Download


----------------------------------------------------------------------------
(* Further claims about one tunnel, under SpecTunnel.                      *)

\* C31: a tunnel whose status line could not be written to the client has
\* started neither copy direction: the handler is still at the status line
\* or has returned, and the upload task was not started.
C31_StatusFailureAborts ==
    \A id \in DOMAIN tunnels :
        tunnels[id].statusErr =>
            /\ tunnels[id].upPc = "status"
            /\ tunnels[id].downPc \in {"status", "closed"}


----------------------------------------------------------------------------
(* Further claims about the collector, under SpecCollector.                *)

\* C32: an event that waits in the queue carries no country: every event is
\* passed to Record without one, so a country on a queued event was looked
\* up before the collector task dequeued it, by the task that called Record.
C32_LookupAfterDequeue ==
    \A i \in 1..Len(eventCh) :
        eventCh[i].TargetIP # "" => eventCh[i].Country = ""


\* A step of the collector task that takes an event from the queue and
\* aggregates it (in its loop or in its drain).
IsAggregateStep ==
    /\ pc \in {"select", "drain"}
    /\ eventCh # <<>>
    /\ eventCh' = Tail(eventCh)

\* The buckets after such a step: the buffer, or the batch that the step
\* swapped out because the buffer had become large.
BucketsAfter == IF pc = "select" /\ pc' = "write" THEN buf' ELSE buffer'

\* A counter of bucket k of the buffer b, 0 when there is no such bucket.
Bucket(b, k, field) == IF k \in DOMAIN b THEN b[k][field] ELSE 0

\* C33: aggregating an event adds its upload and its download and one
\* connection to the bucket of its (user, domain, country, minute, hour),
\* which is created when the buffer has none, the first event counting as
\* the later ones; every other bucket is left as it was.  The country of the
\* key is the event's, empty or not.
C33_OneBucketPerKey ==
    [][IsAggregateStep =>
         LET ev == Head(eventCh)
             t == IF ev.Timestamp = ZeroTime THEN now ELSE ev.Timestamp
             key == [Username |-> ev.Username, Domain |-> ev.Domain,
                     Country |-> ev.Country,
                     Minute |-> <<"minute", t - (t % SecondsPerMinute)>>,
                     Hour |-> <<"hour", t - (t % SecondsPerHour)>>]
         IN /\ DOMAIN BucketsAfter = DOMAIN buffer \cup {key}
            /\ \A k \in DOMAIN buffer \ {key} : BucketsAfter[k] = buffer[k]
            /\ BucketsAfter[key].Upload
                 = Bucket(buffer, key, "Upload") + ev.Upload
            /\ BucketsAfter[key].Download
                 = Bucket(buffer, key, "Download") + ev.Download
            /\ BucketsAfter[key].ConnCount
                 = Bucket(buffer, key, "ConnCount") + 1]_vars

\* C33 witness: the buffer holds two buckets that differ in the user, one
\* of them of two events, both with an empty country.
C33_Witness ==
    /\ Cardinality(DOMAIN buffer) = 2
    /\ \E k \in DOMAIN buffer :
          /\ k.Country = ""
          /\ buffer[k].ConnCount = 2
          /\ buffer[k].Upload = EvA1.Upload + EvA2.Upload
          /\ buffer[k].Download = EvA1.Download + EvA2.Download
    /\ \A k \in DOMAIN buffer : k.Country = ""


\* C34: a step of the collector task that aggregates an event in its loop
\* goes on to a store write exactly when the buffer has reached MaxBuffer
\* keys, with all the buckets in the batch; a tick goes on to a store write
\* with the whole buffer, which then is not empty; no store write is ever
\* begun with an empty batch; and while no batch write has failed the
\* buffer holds fewer than MaxBuffer keys whenever the collector task is at
\* its select.
C34_FlushTriggers ==
    [][/\ (IsAggregateStep /\ pc = "select") =>
             IF pc' = "write"
               THEN Cardinality(DOMAIN buf') >= MaxBuffer /\ buffer' = <<>>
               ELSE pc' = "select" /\ Cardinality(DOMAIN buffer') < MaxBuffer
       /\ (pc = "select" /\ pc' = "write" /\ eventCh' = eventCh) =>
             buffer # <<>> /\ buf' = buffer /\ buffer' = <<>>
       /\ pc' \in {"write", "finalWrite"} => buf' # <<>>
       /\ (pc' = "select" /\ failsLeft' = MaxFails) =>
             Cardinality(DOMAIN buffer') < MaxBuffer]_vars

\* C34 witness: the buffer reached MaxBuffer keys and was swapped out for a
\* write before any tick, no write having failed.
C34_Witness ==
    /\ pc = "write"
    /\ Cardinality(DOMAIN buf) = MaxBuffer
    /\ buffer = <<>>
    /\ failsLeft = MaxFails
    /\ hist.lastFlush = "none"


\* C35: for every user the User Row in the store holds at most the upload
\* bytes, the download bytes and the number of the events Record accepted
\* for that user, whatever flushes failed and were retried.
C35_NothingCountedTwice ==
    \A u \in Users :
        /\ Col(db.user_stats, u, "total_upload") <= hist.acceptedUp[u]
        /\ Col(db.user_stats, u, "total_download") <= hist.acceptedDown[u]
        /\ Col(db.user_stats, u, "conn_count") <= hist.acceptedN[u]

\* C35 witness: a flush failed, a later one succeeded, and the store holds
\* for alice exactly the two events accepted for her.
C35_Witness ==
    /\ failsLeft < MaxFails
    /\ hist.lastFlush = "ok"
    /\ hist.acceptedN["alice"] = 2
    /\ Col(db.user_stats, "alice", "conn_count") = 2
    /\ Col(db.user_stats, "alice", "total_upload") = hist.acceptedUp["alice"]
    /\ Col(db.user_stats, "alice", "total_download") = hist.acceptedDown["alice"]


\* A step of the collector task that ends a store write (of a flush of the
\* loop or of the final flush), and whether the write failed.
IsWriteStep == pc \in {"write", "finalWrite"} /\ pc' # pc
WriteFailed == failsLeft' < failsLeft

\* C36: aggregating an event leaves in its bucket, as latest-observed
\* timestamp, the later of the bucket's timestamp before (if there was a
\* bucket) and the event's time; while a batch is being written the buffer
\* is empty and no event is aggregated, so that a failed write puts the
\* buckets of the batch back as they were, timestamps included, and a
\* successful one leaves the buffer empty.
C36_LastSeenIsMaximum ==
    [][/\ IsAggregateStep =>
             LET ev == Head(eventCh)
                 t == IF ev.Timestamp = ZeroTime THEN now ELSE ev.Timestamp
                 key == CHOOSE k \in DOMAIN BucketsAfter :
                           k \notin DOMAIN buffer \/ BucketsAfter[k] # buffer[k]
                 before == Bucket(buffer, key, "LastSeen")
             IN BucketsAfter[key].LastSeen = IF t > before THEN t ELSE before
       /\ pc \in {"write", "finalWrite"} =>
             /\ buffer = <<>>
             /\ ~IsAggregateStep
       /\ IsWriteStep =>
             buffer' = IF WriteFailed THEN buf ELSE <<>>]_vars

\* C36 witness: a failed write has put back a bucket of two events, which
\* has the time of the later event.
C36_Witness ==
    /\ hist.lastFlush = "failed"
    /\ pc \in {"select", "exited"}
    /\ \E k \in DOMAIN buffer :
          /\ buffer[k].ConnCount = 2
          /\ buffer[k].LastSeen = EvA2.Timestamp


----------------------------------------------------------------------------
(* Further claims about the front end, under SpecProxy.                    *)

\* C37: with a store, a request with a valid certificate whose user has no
\* User Row, or whose lookup of the flag fails, is not answered 403 but
\* served as for an enabled user: a CONNECT is handed to the tunnel handler
\* and counted as a connection, any other method is forwarded to the default
\* site and counted as a request.
C37_DisabledCheckFailsOpen ==
    [][(/\ IsRequestStep
        /\ statsEnabled
        /\ CarriedValidCert(resp')
        /\ \/ resp'.lookupErr
           \/ resp'.certs[1].cn \notin DOMAIN db.user_stats) =>
         LET u == resp'.certs[1].cn IN
         /\ resp'.status # "403"
         /\ resp'.method = "CONNECT" =>
              /\ resp'.handler = "tunnel"
              /\ UserStats' = RecordConnection(UserStats, statsEnabled, u, now)
         /\ resp'.method # "CONNECT" =>
              /\ resp'.status = "forwarded"
              /\ resp'.handler = "default site"
              /\ UserStats' = RecordRequest(UserStats, statsEnabled, u, now)]_vars

\* C37 witness: the lookup of the flag failed for a user whose User Row is
\* disabled, and the CONNECT was handed to the tunnel handler, which
\* established the tunnel.
C37_Witness ==
    /\ statsEnabled
    /\ resp.status = "200"
    /\ resp.handler = "tunnel"
    /\ resp.lookupErr
    /\ CarriedValidCert(resp)
    /\ StoredDisabled(resp.certs[1].cn)
    /\ hist.adminCalls = 0


----------------------------------------------------------------------------
(* Claims about the disabled flag, under SpecFlags.                        *)

\* C38: a call of BatchUpsert, IncrementRequestCount or CleanupOldData,
\* failed or not, leaves the disabled flag of every existing User Row as it
\* was, and every User Row such a call creates has the flag clear.
C38_FlagUntouched ==
    [][hist'.last.op \in {"BatchUpsert", "IncrementRequestCount",
                          "CleanupOldData"} =>
         /\ DOMAIN db.user_stats \subseteq DOMAIN db'.user_stats
         /\ \A u \in DOMAIN db'.user_stats :
               db'.user_stats[u].disabled =
                  IF u \in DOMAIN db.user_stats THEN db.user_stats[u].disabled
                  ELSE 0]_vars

\* C38 witness: a user was disabled by the first call, and the second call,
\* a BatchUpsert that committed, added traffic to the user's row, which
\* still is disabled.
C38_Witness ==
    /\ hist.calls = 2
    /\ hist.last.op = "BatchUpsert"
    /\ ~hist.last.err
    /\ "alice" \in DOMAIN db.user_stats
    /\ db.user_stats["alice"].disabled = 1
    /\ db.user_stats["alice"].conn_count > 0


----------------------------------------------------------------------------
(* Claims about Stop, under SpecCollector.                                 *)

\* The collector task, not in a store write, can take a step.
LoopCanStep ==
    ENABLED (LoopEvent \/ LoopTick \/ LoopDone \/ DrainEvent \/ DrainFlush)

====
